---- MODULE Spec2Model ----
(***************************************************************************)
(* Model of the Touchstone input module, src/src/input/touchstone.c.       *)
(*                                                                         *)
(* The parser context (struct context), the input buffer in->buf and the   *)
(* session data feed are the state.  Every C function of the module is an  *)
(* operator of the same name that maps a machine record                    *)
(*     m = [inc |-> struct context, session |-> packets sent so far,       *)
(*          pts |-> history of the sweep points, handed |-> history of     *)
(*          the lines given to process_line, ret |-> return code]          *)
(* to the machine record after the call.  The actions Receive and End feed *)
(* a byte stream to receive() in chunks and call end().                    *)
(*                                                                         *)
(* Bytes are one-character strings.  A double is a term: <<"num", m, e>>   *)
(* is the decimal number m * 10^e read from the input, and the results of  *)
(* libm calls are kept as terms over their arguments, so that the value of *)
(* an emitted cell tells which conversion was applied to which input.      *)
(***************************************************************************)
EXTENDS Integers, Sequences, FiniteSets, TLC

VARIABLES
    stream,     \* the bytes of the input file
    pos,        \* number of bytes of stream already given to receive()
    in_buf,     \* in->buf
    sdi_ready,  \* in->sdi_ready
    inc,        \* in->priv, the struct context
    session,    \* packets sent to the session, oldest first
    pts,        \* history: one record per point held in the sweep store
    handed,     \* history: the lines given to process_line, in order
    ret,        \* return code of the last call
    failed,     \* history: some call has returned an error
    pc,         \* "open" until end() has been called, then "ended"
    junk,       \* the content of memory returned by g_malloc
    metadata,   \* the metadata table given to format_match
    confidence, \* *confidence of format_match
    match_ret   \* return code of format_match, "NONE" before the call

vars == <<stream, pos, in_buf, sdi_ready, inc, session, pts, handed, ret,
          failed, pc, junk, metadata, confidence, match_ret>>

\* the variables of format_match
matchvars == <<metadata, confidence, match_ret>>

---------------------------------------------------------------------------
(* Bounds *)

\* largest chunk handed to one receive() call, besides "all the rest"
MaxChunk == 2

\* largest port count of the generated version 2 files
MaxPorts == 3

\* number of data rows of the generated version 2 files
NumRows == 2

\* longest accumulated data-set given to the port count inference
MaxSetLen == 40

---------------------------------------------------------------------------
(* Characters and glib string functions *)

\* the sequence f as an explicit tuple
Tuple(f) == SubSeq(f, 1, Len(f))

\* the bytes of a string
Chars(s) == Tuple([i \in 1..Len(s) |-> SubSeq(s, i, i)])

NL == "\n"
TAB == "\t"
CR == "\r"
SPC == " "

LowerCase == Chars("abcdefghijklmnopqrstuvwxyz")
UpperCase == Chars("ABCDEFGHIJKLMNOPQRSTUVWXYZ")
Digits == Chars("0123456789")

\* g_ascii_toupper
AsciiUp(c) ==
    IF \E i \in 1..26 : LowerCase[i] = c
    THEN UpperCase[CHOOSE i \in 1..26 : LowerCase[i] = c]
    ELSE c

\* g_ascii_isspace on the bytes the model uses
IsSpace(c) == c \in {SPC, TAB, NL, CR}

IsDigit(c) == \E i \in 1..10 : Digits[i] = c

DigitVal(c) == (CHOOSE i \in 1..10 : Digits[i] = c) - 1

\* the tail of s that starts at (1-based) index i
From(s, i) == SubSeq(s, i, Len(s))

\* g_str_has_prefix
HasPrefix(s, w) == Len(s) >= Len(w) /\ SubSeq(s, 1, Len(w)) = w

\* g_str_has_suffix
HasSuffix(s, w) ==
    Len(s) >= Len(w) /\ SubSeq(s, Len(s) - Len(w) + 1, Len(s)) = w

\* strstr / g_strstr_len(s, -1, w): index of the first occurrence, 0 if none
StrStr(s, w) ==
    LET hits == {i \in 1..(Len(s) - Len(w) + 1) : SubSeq(s, i, i + Len(w) - 1) = w}
    IN  IF hits = {} THEN 0 ELSE CHOOSE i \in hits : \A j \in hits : i <= j

\* g_strrstr_len(s, len, "\n"): index of the last occurrence of c, 0 if none
StrRChr(s, c) ==
    LET hits == {i \in 1..Len(s) : s[i] = c}
    IN  IF hits = {} THEN 0 ELSE CHOOSE i \in hits : \A j \in hits : i >= j

\* g_strchug: drop leading white space
StrChug(s) ==
    LET keep == {i \in 1..Len(s) : ~IsSpace(s[i])}
    IN  IF keep = {} THEN <<>>
        ELSE From(s, CHOOSE i \in keep : \A j \in keep : i <= j)

\* g_strchomp: drop trailing white space
StrChomp(s) ==
    LET keep == {i \in 1..Len(s) : ~IsSpace(s[i])}
    IN  IF keep = {} THEN <<>>
        ELSE SubSeq(s, 1, CHOOSE i \in keep : \A j \in keep : i >= j)

\* g_strstrip
StrStrip(s) == StrChomp(StrChug(s))

\* g_strsplit(s, c, 0) for a one-byte delimiter: the empty string gives no
\* piece, otherwise there is one piece more than there are delimiters
RECURSIVE SplitFrom(_, _, _)
SplitFrom(s, c, i) ==
    LET hits == {k \in i..Len(s) : s[k] = c}
    IN  IF hits = {} THEN <<SubSeq(s, i, Len(s))>>
        ELSE LET k == CHOOSE h \in hits : \A j \in hits : h <= j
             IN  <<SubSeq(s, i, k - 1)>> \o SplitFrom(s, c, k + 1)

StrSplit(s, c) == IF Len(s) = 0 THEN <<>> ELSE SplitFrom(s, c, 1)

---------------------------------------------------------------------------
(* Doubles *)

RECURSIVE Pow10(_)
Pow10(n) == IF n = 0 THEN 1 ELSE 10 * Pow10(n - 1)

RECURSIVE Norm(_, _)
\* the decimal m * 10^e with the trailing zeros of m moved to the exponent
Norm(m, e) ==
    IF m = 0 THEN <<"num", 0, 0>>
    ELSE IF m % 10 = 0 THEN Norm(m \div 10, e + 1)
    ELSE <<"num", m, e>>

IsNum(x) == x[1] = "num"

Zero == Norm(0, 0)
One == Norm(1, 0)

\* a >= b for two decimals
Geq(a, b) ==
    LET d == IF a[3] < b[3] THEN a[3] ELSE b[3]
    IN  a[2] * Pow10(a[3] - d) >= b[2] * Pow10(b[3] - d)

\* a * b for two decimals; the product with an indeterminate value is
\* indeterminate
Mul(a, b) ==
    IF IsNum(a) /\ IsNum(b) THEN Norm(a[2] * b[2], a[3] + b[3])
    ELSE <<"mul", a, b>>

\* x / 180.0 * acos(-1.0)
Deg2Rad(x) == <<"deg2rad", x>>
\* pow(10.0, x / 20.0)
Pow10Div20(x) == <<"pow10div20", x>>
\* pow(10.0, x / 10.0)
Pow10Div10(x) == <<"pow10div10", x>>
\* sqrt(r*r + i*i)
SqrtSumSq(r, i) == <<"sqrt_sumsq", r, i>>
\* atan2(i, r)
Atan2(i, r) == <<"atan2", i, r>>

---------------------------------------------------------------------------
(* Number parsing: strtod, sr_atod, sr_atoi *)

RECURSIVE DigitRun(_, _)
\* number of consecutive decimal digits of s from index i on
DigitRun(s, i) ==
    IF i <= Len(s) /\ IsDigit(s[i]) THEN 1 + DigitRun(s, i + 1) ELSE 0

RECURSIVE DigitsVal(_, _, _)
\* value of the n decimal digits of s that start at index i
DigitsVal(s, i, n) ==
    IF n = 0 THEN 0
    ELSE 10 * DigitsVal(s, i, n - 1) + DigitVal(s[i + n - 1])

IsSign(s, i) == i <= Len(s) /\ s[i] \in {"-", "+"}

\* the value of the number whose mantissa has nInt digits from index i2
\* and nFrc digits after the point, and whose exponent has nExp digits from
\* index i5
StrToD_value(s, neg, i2, nInt, nFrc, eneg, i5, nExp) ==
    LET man  == DigitsVal(s, i2, nInt) * Pow10(nFrc)
                + DigitsVal(s, i2 + nInt + 1, nFrc)
        expo == IF eneg THEN 0 - DigitsVal(s, i5, nExp)
                ELSE DigitsVal(s, i5, nExp)
    IN  Norm(IF neg THEN 0 - man ELSE man, expo - nFrc)

\* the exponent part, which would start at index i4
StrToD_exponent(s, neg, i2, nInt, nFrc, i4) ==
    LET sgn  == IsSign(s, i4 + 1)
        i5   == IF sgn THEN i4 + 2 ELSE i4 + 1
        nExp == IF i4 <= Len(s) /\ s[i4] \in {"E", "e"}
                THEN DigitRun(s, i5) ELSE 0
    IN  IF nInt + nFrc = 0
        THEN [conv |-> FALSE, end |-> 1, val |-> Zero]
        ELSE [conv |-> TRUE,
              end |-> IF nExp = 0 THEN i4 ELSE i5 + nExp,
              val |-> StrToD_value(s, neg, i2, nInt, nFrc,
                                   sgn /\ s[i4 + 1] = "-", i5, nExp)]

\* the fraction part after the nInt integer digits that start at index i2
StrToD_fraction(s, neg, i2, nInt) ==
    LET i3   == i2 + nInt
        dot  == i3 <= Len(s) /\ s[i3] = "."
        nFrc == IF dot THEN DigitRun(s, i3 + 1) ELSE 0
    IN  StrToD_exponent(s, neg, i2, nInt, nFrc,
                        IF dot THEN i3 + 1 + nFrc ELSE i3)

\* the sign and the integer digits from index i1, the first byte that is
\* not white space
StrToD_digits(s, i1) ==
    LET i2 == IF IsSign(s, i1) THEN i1 + 1 ELSE i1
    IN  StrToD_fraction(s, IsSign(s, i1) /\ s[i1] = "-", i2, DigitRun(s, i2))

\* strtod on decimal notation [ws][sign]digits[.digits][E[sign]digits]:
\* conv tells whether a number was read, end is the index of the first byte
\* that was not consumed (1 when no number was read)
StrToD(s) == StrToD_digits(s, Len(s) - Len(StrChug(s)) + 1)

\* the test of sr_atod on the result r of strtod
sr_atod_result(s, r) ==
    [ok |-> r.conv /\ StrChug(From(s, r.end)) = <<>>, val |-> r.val]

\* sr_atod: a decimal number, white space allowed around it, nothing else
sr_atod(s) == sr_atod_result(s, StrToD(s))

\* sr_atoi on a string t without leading white space
sr_atoi_digits(t) ==
    LET i2 == IF IsSign(t, 1) THEN 2 ELSE 1
        n  == DigitRun(t, i2)
        v  == DigitsVal(t, i2, n)
    IN  [ok |-> n > 0 /\ StrChug(From(t, i2 + n)) = <<>>,
         val |-> IF IsSign(t, 1) /\ t[1] = "-" THEN 0 - v ELSE v]

\* sr_atoi: a decimal integer, white space allowed around it, nothing else
sr_atoi(s) == sr_atoi_digits(StrChug(s))

---------------------------------------------------------------------------
(* Heap blocks of doubles *)

\* A block is [null, cap, mem, ovf]: cap is the number of doubles that were
\* allocated, mem the cells from index 0 up to the highest one written,
\* ovf tells that a cell at or beyond cap has been written.  A cell that
\* was never written holds the indeterminate value junk.

NULL == [null |-> TRUE, cap |-> 0, mem |-> <<>>, ovf |-> FALSE]

\* g_malloc(n * sizeof(double))
Malloc(n) == [null |-> FALSE, cap |-> n, mem |-> <<>>, ovf |-> FALSE]

\* a[i]
Load(a, i) == IF i < Len(a.mem) THEN a.mem[i + 1] ELSE junk

RECURSIVE Pad(_)
\* n cells that were never written
Pad(n) == IF n <= 0 THEN <<>> ELSE Append(Pad(n - 1), junk)

\* a[i] = v
Store(a, i, v) ==
    [a EXCEPT !.mem = IF i < Len(a.mem) THEN [a.mem EXCEPT ![i + 1] = v]
                      ELSE Append(a.mem \o Pad(i - Len(a.mem)), v),
              !.ovf = a.ovf \/ i >= a.cap]

\* a[off], ..., a[off + n - 1]
LoadN(a, off, n) ==
    SubSeq(a.mem \o Pad(off + n - Len(a.mem)), off + 1, off + n)

\* memcpy(a + off, vals, Len(vals) * sizeof(double)): the cells
\* a[off], ..., a[off + Len(vals) - 1] written as Store writes them one by
\* one, the cells between the written part of a and off left unwritten
StoreN(a, off, vals) ==
    IF vals = <<>> THEN a
    ELSE LET last == off + Len(vals)
             len  == IF Len(a.mem) > last THEN Len(a.mem) ELSE last
         IN  [a EXCEPT !.mem = Tuple([i \in 1..len |->
                                  IF i > off /\ i <= last THEN vals[i - off]
                                  ELSE IF i <= Len(a.mem) THEN a.mem[i]
                                  ELSE junk]),
                       !.ovf = a.ovf \/ last > a.cap]

---------------------------------------------------------------------------
(* Numeric conversions *)

\* convri on the pair (a[0], a[1])
convri(p) ==
    <<SqrtSumSq(p[1], p[2]),
      IF p[1] = Zero /\ p[2] = Zero THEN Zero ELSE Atan2(p[2], p[1])>>

\* convma on the pair (a[0], a[1])
convma(p) == <<p[1], Deg2Rad(p[2])>>

\* convdba on the pair (a[0], a[1])
convdba(p) == convma(<<Pow10Div20(p[1]), p[2]>>)

\* confNF2F on *a
confNF2F(x) == Pow10Div10(x)

\* the conversion function chosen by number_format
Conv(fmt, p) ==
    CASE fmt = "FORMAT_DB_ANGLE" -> convdba(p)
      [] fmt = "FORMAT_MAGNITUDE_ANGLE" -> convma(p)
      [] OTHER -> convri(p)

\* the loop body of conv_len done n times: the n consecutive pairs from
\* a[off] on, each converted in place
conv_pairs(a, off, fmt, n) ==
    StoreN(a, off,
           Tuple([i \in 1..(2 * n) |->
                     Conv(fmt, LoadN(a, off + 2 * ((i - 1) \div 2), 2))
                         [((i - 1) % 2) + 1]]))

\* conv_len with while(--N): the last pair is left as it is
conv_len_predecrement(a, off, fmt, N) ==
    IF N <= 1 THEN a ELSE conv_pairs(a, off, fmt, N - 1)

\* conv_len(a + off, conv, N): converts N consecutive pairs in place
conv_len(a, off, fmt, N) ==
    IF N = 0 THEN a ELSE conv_pairs(a, off, fmt, N)

\* swap21_12 that exchanges the first components only
swap21_12_first_only(a, off) ==
    Store(Store(a, off + 2, Load(a, off + 4)), off + 4, Load(a, off + 2))

\* swap21_12(a + off)
swap21_12(a, off) ==
    LET s1 == Store(Store(a, off + 2, Load(a, off + 4)), off + 4, Load(a, off + 2))
    IN  Store(Store(s1, off + 3, Load(s1, off + 5)), off + 5, Load(s1, off + 3))

\* the index pairs <<i, j>>, i < j, in the order of the two nested loops
RECURSIVE TriLoop(_, _, _)
TriLoop(i, j, N) ==
    IF i >= N - 1 THEN <<>>
    ELSE IF j >= N THEN TriLoop(i + 1, i + 2, N)
    ELSE <<<<i, j>>>> \o TriLoop(i, j + 1, N)

RECURSIVE fill_lower_from(_, _, _, _)
fill_lower_from(a, off, N, ij) ==
    IF ij = <<>> THEN a
    ELSE LET i == Head(ij)[1]
             j == Head(ij)[2]
             a1 == Store(a, off + 2*(j*N+i), Load(a, off + 2*(i*N+j)))
             a2 == Store(a1, off + 2*(j*N+i) + 1, Load(a1, off + 2*(i*N+j) + 1))
         IN  fill_lower_from(a2, off, N, Tail(ij))

RECURSIVE fill_lower_first_from(_, _, _, _)
fill_lower_first_from(a, off, N, ij) ==
    IF ij = <<>> THEN a
    ELSE LET i == Head(ij)[1]
             j == Head(ij)[2]
         IN  fill_lower_first_from(
                Store(a, off + 2*(j*N+i), Load(a, off + 2*(i*N+j))),
                off, N, Tail(ij))

\* fill_lower that mirrors the first component of each pair only
fill_lower_first_only(a, off, N) ==
    fill_lower_first_from(a, off, N, TriLoop(0, 1, N))

\* fill_lower(a + off, N): a[j][i] = a[i][j] for i < j
fill_lower(a, off, N) == fill_lower_from(a, off, N, TriLoop(0, 1, N))

RECURSIVE fill_upper_from(_, _, _, _)
fill_upper_from(a, off, N, ij) ==
    IF ij = <<>> THEN a
    ELSE LET i == Head(ij)[1]
             j == Head(ij)[2]
             a1 == Store(a, off + 2*(i*N+j), Load(a, off + 2*(j*N+i)))
             a2 == Store(a1, off + 2*(i*N+j) + 1, Load(a1, off + 2*(j*N+i) + 1))
         IN  fill_upper_from(a2, off, N, Tail(ij))

\* fill_upper(a + off, N): a[i][j] = a[j][i] for i < j
fill_upper(a, off, N) == fill_upper_from(a, off, N, TriLoop(0, 1, N))

---------------------------------------------------------------------------
(* Session packets *)

INITIAL_DATA_SET_SIZE == 512

\* A packet of the data feed.  data holds the samples that the packet
\* points to at the time of the call, src the history records of the sweep
\* points the samples were stored for.
Packet(type, mq, mqflags, data, src) ==
    [type |-> type, mq |-> mq, mqflags |-> mqflags, data |-> data, src |-> src]

Marker(type) == Packet(type, "NONE", "NONE", <<>>, <<>>)

\* sr_session_send and the std_session_send_df_* helpers: the packet
\* reaches the consumer and the call returns SR_OK
sr_session_send(m, pkt) ==
    [m EXCEPT !.session = Append(@, pkt), !.ret = "SR_OK"]

---------------------------------------------------------------------------
(* struct context after init() *)

InitContext ==
    [frequency_unit        |-> Zero,
     last_freq             |-> Zero,
     reference_resistance  |-> Zero,
     reference_resistances |-> NULL,
     parameter_kind        |-> "NONE",
     number_format         |-> "FORMAT_DB_ANGLE",
     two_port_data_order   |-> "TP_ORDER_21_12",
     matrix_format         |-> "MF_FULL",
     sweep_points          |-> 0,
     sweep_points_noise    |-> 0,
     state                 |-> "PS_START_FILE",
     num_ports             |-> 0,
     num_references_found  |-> 0,
     num_vals_per_set      |-> 0,
     file_version          |-> 0,
     started               |-> FALSE,
     data_set              |-> NULL,
     data_set_size         |-> 0,
     data_set_count        |-> 0,
     sweep_freq            |-> NULL,
     sweep_data            |-> NULL,
     sweep_count           |-> 0,
     sweep_size            |-> 0]

\* the input object after sr_input_new and init()
InitMachine ==
    [buf |-> <<>>, sdi_ready |-> FALSE, inc |-> InitContext,
     session |-> <<>>, pts |-> <<>>, handed |-> <<>>, ret |-> "SR_OK"]

---------------------------------------------------------------------------
(* Option line and version line *)

parse_option_line(m, option_line) ==
    LET line == <<SPC>> \o Tail(option_line) \o <<SPC>>
        hz   == StrStr(line, Chars("HZ "))
        pre  == IF hz > 1 THEN line[hz - 1] ELSE SPC
        unit == IF hz = 0 THEN Norm(1, 9)
                ELSE IF pre = "K" THEN Norm(1000, 0)
                ELSE IF pre = "M" THEN Norm(1, 6)
                ELSE IF pre = "G" THEN Norm(1, 9)
                ELSE Norm(1, 0)
        has(w) == StrStr(line, Chars(w)) > 0
        fmt  == IF has(" DB ") THEN "FORMAT_DB_ANGLE"
                ELSE IF has(" MA ") THEN "FORMAT_MAGNITUDE_ANGLE"
                ELSE IF has(" RI ") THEN "FORMAT_REAL_IMAGINARY"
                ELSE "FORMAT_MAGNITUDE_ANGLE"
        kind == IF has(" S ") THEN "S"
                ELSE IF has(" Y ") THEN "Y"
                ELSE IF has(" Z ") THEN "Z"
                ELSE IF has(" G ") THEN "G"
                ELSE IF has(" H ") THEN "H"
                ELSE "S"
        r    == StrStr(line, Chars(" R "))
        rr   == sr_atod(StrChug(From(line, r + 3)))
    IN  IF hz > 0 /\ pre \notin {"K", "M", "G", SPC}
        THEN [m EXCEPT !.ret = "SR_ERR"]
        ELSE [m EXCEPT !.inc.frequency_unit = unit,
                       !.inc.number_format = fmt,
                       !.inc.parameter_kind = kind,
                       !.inc.reference_resistance =
                            IF r = 0 THEN Norm(50, 0)
                            ELSE IF rr.ok THEN rr.val ELSE @,
                       !.ret = IF r = 0 \/ rr.ok THEN "SR_OK" ELSE "SR_ERR"]

parse_version_line(m, version_line) ==
    IF ~HasPrefix(version_line, Chars("[VERSION]"))
    THEN [m EXCEPT !.ret = "SR_ERR"]
    ELSE IF HasPrefix(StrChug(From(version_line, Len(Chars("[VERSION]")) + 1)),
                      Chars("2.0"))
    THEN [m EXCEPT !.inc.file_version = 2, !.ret = "SR_OK"]
    ELSE [m EXCEPT !.ret = "SR_ERR"]

---------------------------------------------------------------------------
(* Integer square root *)

RECURSIVE Base4(_, _)
\* the n low base-4 digits of a, most significant first: the two bits that
\* a >> 30 reads in each of the n rounds of the loop
Base4(a, n) == IF n = 0 THEN <<>> ELSE Append(Base4(a \div 4, n - 1), a % 4)

RECURSIVE sqrti_loop(_, _, _)
sqrti_loop(d, rem, root) ==
    IF d = <<>> THEN root \div 2
    ELSE LET root1 == root * 2
             rem1  == rem * 4 + Head(d)
         IN  IF root1 < rem1
             THEN sqrti_loop(Tail(d), rem1 - (root1 + 1), root1 + 2)
             ELSE sqrti_loop(Tail(d), rem1, root1)

sqrti(a) == sqrti_loop(Base4(a, 16), 0, 0)

---------------------------------------------------------------------------
(* Emitter *)

RECURSIVE FillN(_, _, _)
\* a[0] = ... = a[n-1] = v
FillN(a, n, v) == IF n = 0 THEN a ELSE Store(FillN(a, n - 1, v), n - 1, v)

\* send_reference_information without the 1.0 of version 2
send_reference_information_as_given(m) ==
    LET c  == m.inc
        r1 == IF c.reference_resistances.null
              THEN FillN(Malloc(c.num_ports), c.num_ports, c.reference_resistance)
              ELSE c.reference_resistances
    IN  sr_session_send([m EXCEPT !.inc.reference_resistances = r1],
            Packet("SR_DF_ANALOG", "SR_MQ_RESISTANCE", "SR_MQFLAG_REFERENCE",
                   LoadN(r1, 0, c.num_ports), <<>>))

\* send_reference_information that always fills the vector from the R value
\* of the option line
send_reference_information_from_option(m) ==
    LET c  == m.inc
        r1 == FillN(Malloc(c.num_ports), c.num_ports, c.reference_resistance)
        r2 == IF c.file_version > 1 /\ c.parameter_kind # "S"
              THEN FillN(r1, c.num_ports, One)
              ELSE r1
    IN  sr_session_send([m EXCEPT !.inc.reference_resistances = r2],
            Packet("SR_DF_ANALOG", "SR_MQ_RESISTANCE", "SR_MQFLAG_REFERENCE",
                   LoadN(r2, 0, c.num_ports), <<>>))

send_reference_information(m) ==
    LET c  == m.inc
        r1 == IF c.reference_resistances.null
              THEN FillN(Malloc(c.num_ports), c.num_ports, c.reference_resistance)
              ELSE c.reference_resistances
        r2 == IF c.file_version > 1 /\ c.parameter_kind # "S"
              THEN FillN(r1, c.num_ports, One)
              ELSE r1
    IN  sr_session_send([m EXCEPT !.inc.reference_resistances = r2],
            Packet("SR_DF_ANALOG", "SR_MQ_RESISTANCE", "SR_MQFLAG_REFERENCE",
                   LoadN(r2, 0, c.num_ports), <<>>))

\* data_set_entries with four doubles for a noise point
data_set_entries_noise4(c) ==
    IF c.state = "PS_NOISE_DATA" THEN 4 ELSE c.num_ports * c.num_ports * 2

\* number of doubles of one sweep point in sweep_data
data_set_entries(c) ==
    IF c.state = "PS_NOISE_DATA" THEN 5 ELSE c.num_ports * c.num_ports * 2

send_sweep_information(m) ==
    LET c  == m.inc
        m1 == sr_session_send(m,
                Packet("SR_DF_ANALOG", "SR_MQ_FREQUENCY", "NONE",
                       LoadN(c.sweep_freq, 0, c.sweep_count), m.pts))
        m2 == sr_session_send([m1 EXCEPT !.inc.sweep_count = 0, !.pts = <<>>],
                Packet("SR_DF_ANALOG", "SR_MQ_N_PORT_PARAMETER",
                       IF c.state = "PS_NOISE_DATA"
                       THEN "SR_MQFLAG_TWO_PORT_NOISE_DATA" ELSE c.parameter_kind,
                       LoadN(c.sweep_data, 0, c.sweep_count * data_set_entries(c)),
                       m.pts))
    IN  IF c.sweep_count = 0 THEN [m EXCEPT !.ret = "SR_OK"] ELSE m2

---------------------------------------------------------------------------
(* Sweep accumulator and sweep store *)

prepare_data_set_memory(m, min_cap) ==
    LET c  == m.inc
        m1 == IF c.data_set.null
              THEN [m EXCEPT !.inc.data_set = Malloc(INITIAL_DATA_SET_SIZE),
                             !.inc.data_set_count = 0,
                             !.inc.data_set_size = INITIAL_DATA_SET_SIZE]
              ELSE m
        c1 == m1.inc
    IN  IF c1.data_set_count + min_cap > c1.data_set_size
        THEN [m1 EXCEPT !.inc.data_set =
                  StoreN(Malloc(c1.data_set_size + INITIAL_DATA_SET_SIZE), 0,
                         LoadN(c1.data_set, 0, c1.data_set_count)),
                        !.ret = "SR_OK"]
        ELSE [m1 EXCEPT !.ret = "SR_OK"]

add_data_to_set(m, vals) ==
    LET m1 == prepare_data_set_memory(m, Len(vals))
    IN  [m1 EXCEPT !.inc.data_set = StoreN(@, m1.inc.data_set_count, vals),
                   !.inc.data_set_count = @ + Len(vals),
                   !.ret = "SR_OK"]

prepare_sweep_mem(m) ==
    LET c  == m.inc
        E  == data_set_entries(c)
        sp == IF c.file_version > 1 /\ c.sweep_points > 0
              THEN c.sweep_points ELSE INITIAL_DATA_SET_SIZE
    IN  IF c.sweep_size = 0
        THEN [m EXCEPT !.inc.sweep_freq = Malloc(sp),
                       !.inc.sweep_data = Malloc(sp * E),
                       !.inc.sweep_size = sp,
                       !.ret = "SR_OK"]
        ELSE IF c.sweep_count = c.sweep_size
        THEN [m EXCEPT !.inc.sweep_freq =
                  StoreN(Malloc(c.sweep_size + INITIAL_DATA_SET_SIZE), 0,
                         LoadN(c.sweep_freq, 0, c.sweep_count)),
                       !.inc.sweep_data =
                  StoreN(Malloc((c.sweep_size + INITIAL_DATA_SET_SIZE) * E), 0,
                         LoadN(c.sweep_data, 0, c.sweep_count * E)),
                       !.inc.sweep_size = @ + INITIAL_DATA_SET_SIZE,
                       !.ret = "SR_OK"]
        ELSE [m EXCEPT !.ret = "SR_OK"]

RECURSIVE move_upper(_, _, _, _, _, _)
\* the row loop of the MF_UPPER branch, from row i and data_set index idx
move_upper(sd, ptr, ds, N, i, idx) ==
    IF i >= N THEN sd
    ELSE LET row_len == 2 * (N - i)
             offs    == i * (N + 1) * 2
         IN  move_upper(StoreN(sd, ptr + offs, LoadN(ds, idx, row_len)),
                        ptr, ds, N, i + 1, idx + row_len)

RECURSIVE move_lower(_, _, _, _, _, _)
\* the row loop of the MF_LOWER branch, from row i and data_set index idx
move_lower(sd, ptr, ds, N, i, idx) ==
    IF i >= N THEN sd
    ELSE LET row_len == 2 * (i + 1)
             offs    == i * N * 2
         IN  move_lower(StoreN(sd, ptr + offs, LoadN(ds, idx, row_len)),
                        ptr, ds, N, i + 1, idx + row_len)

\* the history record of the sweep point that move_data_to_sweep stores
PointRecord(c) ==
    [set |-> LoadN(c.data_set, 0, c.data_set_count),
     state |-> c.state,
     num_ports |-> c.num_ports,
     num_vals_per_set |-> c.num_vals_per_set,
     matrix_format |-> c.matrix_format,
     number_format |-> c.number_format,
     two_port_data_order |-> c.two_port_data_order]

\* the PS_DATA_LINES branch, the copy of the data set into the sweep store
copy_data_set(sd, ptr, c) ==
    CASE c.matrix_format = "MF_FULL" ->
           StoreN(sd, ptr, LoadN(c.data_set, 1, c.num_vals_per_set - 1))
      [] c.matrix_format = "MF_UPPER" ->
           move_upper(sd, ptr, c.data_set, c.num_ports, 0, 1)
      [] OTHER ->
           move_lower(sd, ptr, c.data_set, c.num_ports, 0, 1)

\* the PS_DATA_LINES branch, the fill of the triangle that the file left out
fill_triangle(sd, ptr, c) ==
    CASE c.matrix_format = "MF_UPPER" -> fill_lower(sd, ptr, c.num_ports)
      [] c.matrix_format = "MF_LOWER" -> fill_upper(sd, ptr, c.num_ports)
      [] OTHER -> sd

\* the PS_DATA_LINES branch, the exchange for the two-port order 21_12
order_two_port(sd, ptr, c) ==
    IF c.num_ports = 2 /\ c.two_port_data_order = "TP_ORDER_21_12"
    THEN swap21_12(sd, ptr)
    ELSE sd

\* the PS_DATA_LINES branch: copy, convert, mirror, exchange
move_network_block(sd, ptr, c) ==
    order_two_port(
        fill_triangle(
            conv_len(copy_data_set(sd, ptr, c), ptr, c.number_format,
                     c.num_vals_per_set \div 2),
            ptr, c),
        ptr, c)

\* the conversion of the pair that starts at the noise figure
convert_noise_angle_at_figure(d1) == StoreN(d1, 1, convma(LoadN(d1, 1, 2)))

\* the noise branch, the conversion of the angle after that of the figure
convert_noise_angle(d1) == StoreN(d1, 2, convma(LoadN(d1, 2, 2)))

\* the noise branch: the conversions of the data set in place
convert_noise_set(ds) ==
    convert_noise_angle(Store(ds, 1, confNF2F(Load(ds, 1))))

\* the data set after move_data_to_sweep
moved_data_set(c) ==
    IF c.state = "PS_DATA_LINES" THEN c.data_set
    ELSE convert_noise_set(c.data_set)

\* the sweep store after move_data_to_sweep has written at offset ptr
moved_sweep_data(c, ptr) ==
    IF c.state = "PS_DATA_LINES"
    THEN move_network_block(c.sweep_data, ptr, c)
    ELSE StoreN(c.sweep_data, ptr,
                LoadN(moved_data_set(c), 1, c.num_vals_per_set - 1))

\* move_data_to_sweep after prepare_sweep_mem has returned m1 with the
\* context c
store_sweep_point(m1, c) ==
    [m1 EXCEPT !.inc.sweep_freq =
                   Store(c.sweep_freq, c.sweep_count,
                         Mul(Load(c.data_set, 0), c.frequency_unit)),
               !.inc.last_freq = Load(c.data_set, 0),
               !.inc.data_set = moved_data_set(c),
               !.inc.sweep_data =
                   moved_sweep_data(c, c.sweep_count * data_set_entries(c)),
               !.inc.sweep_count = @ + 1,
               !.inc.data_set_count = 0,
               !.pts = Append(@, PointRecord(c)),
               !.ret = "SR_OK"]

\* move_data_to_sweep from the call of prepare_sweep_mem on
move_prepared(m1) == store_sweep_point(m1, m1.inc)

move_data_to_sweep(m) ==
    IF m.inc.num_ports = 0 THEN [m EXCEPT !.ret = "SR_ERR"]
    ELSE move_prepared(prepare_sweep_mem(m))

---------------------------------------------------------------------------
(* Data lines *)

RECURSIVE parse_numbers_from(_, _)
\* the loop of parse_data_line_numbers after sr_atod has returned r for the
\* piece before toks
parse_number(r, toks, vals) ==
    IF r.ok THEN parse_numbers_from(toks, Append(vals, r.val))
    ELSE [ok |-> FALSE, vals |-> vals]

\* the loop of parse_data_line_numbers over the pieces of the line
parse_numbers_from(toks, vals) ==
    IF toks = <<>> THEN [ok |-> TRUE, vals |-> vals]
    ELSE IF Head(toks) = <<>> THEN parse_numbers_from(Tail(toks), vals)
    ELSE parse_number(sr_atod(StrChug(Head(toks))), Tail(toks), vals)

parse_data_line_numbers(line) == parse_numbers_from(StrSplit(line, SPC), <<>>)

\* calc_num_ports without the test of the inferred port count
calc_num_ports_unchecked(m) ==
    [m EXCEPT !.inc.num_vals_per_set = m.inc.data_set_count,
              !.inc.num_ports = sqrti(m.inc.data_set_count \div 2),
              !.ret = "SR_OK"]

calc_num_ports(m) ==
    LET nvps == m.inc.data_set_count
        N    == sqrti(nvps \div 2)
    IN  [m EXCEPT !.inc.num_vals_per_set = nvps,
                  !.inc.num_ports = N,
                  !.ret = IF N * N * 2 + 1 # nvps THEN "SR_ERR" ELSE "SR_OK"]

\* the port count inference, the first sweep point
infer_first_point(m2) ==
    IF m2.ret = "SR_OK" THEN move_data_to_sweep(m2) ELSE m2

\* the port count inference, the reference packet
infer_reference(m1) ==
    IF m1.ret = "SR_OK" THEN send_reference_information(m1) ELSE m1

\* the port count inference of version 1: calc_num_ports, then the reference
\* packet, then the first sweep point, each when the call before it
\* returned SR_OK
infer_num_ports(m) == infer_first_point(infer_reference(calc_num_ports(m)))

\* noise_start with the sweep sent after the state has changed
noise_start_late_flush(m) ==
    LET c == m.inc
    IN  IF /\ c.file_version = 1 /\ c.state = "PS_DATA_LINES" /\ m.ret = "SR_OK"
           /\ c.sweep_count # 0 /\ c.data_set_count # 0
           /\ Geq(c.last_freq, Load(c.data_set, 0))
        THEN [send_sweep_information([m EXCEPT !.inc.state = "PS_NOISE_DATA"])
                EXCEPT !.inc.sweep_size =
                           (@ * c.num_ports * c.num_ports * 2) \div 5,
                       !.inc.num_vals_per_set = 5,
                       !.ret = m.ret]
        ELSE m

\* noise_start without the test of the file version
noise_start_any_version(m) ==
    IF /\ m.inc.state = "PS_DATA_LINES" /\ m.ret = "SR_OK"
       /\ m.inc.sweep_count # 0 /\ m.inc.data_set_count # 0
       /\ Geq(m.inc.last_freq, Load(m.inc.data_set, 0))
    THEN [send_sweep_information(m) EXCEPT
            !.inc.sweep_size =
                (@ * m.inc.num_ports * m.inc.num_ports * 2) \div 5,
            !.inc.state = "PS_NOISE_DATA",
            !.inc.num_vals_per_set = 5,
            !.ret = m.ret]
    ELSE m

\* the frequency restart test of parse_data_line
noise_start(m) ==
    LET c == m.inc
    IN  IF /\ c.file_version = 1 /\ c.state = "PS_DATA_LINES" /\ m.ret = "SR_OK"
           /\ c.sweep_count # 0 /\ c.data_set_count # 0
           /\ Geq(c.last_freq, Load(c.data_set, 0))
        THEN LET m1 == send_sweep_information(m)
             IN  [m1 EXCEPT !.inc.sweep_size =
                                (@ * c.num_ports * c.num_ports * 2) \div 5,
                            !.inc.state = "PS_NOISE_DATA",
                            !.inc.num_vals_per_set = 5,
                            !.ret = m.ret]
        ELSE m

\* parse_data_line, the port count inference at a line with an odd number
\* of values
data_line_start(m, vals) ==
    IF /\ m.inc.num_ports = 0 /\ m.inc.file_version = 1
       /\ m.inc.data_set_count # 0 /\ Len(vals) % 2 = 1
    THEN infer_num_ports([m EXCEPT !.ret = "SR_OK"])
    ELSE [m EXCEPT !.ret = "SR_OK"]

\* parse_data_line, the values of the line added to the data set
data_line_add(m1, vals) ==
    IF m1.ret = "SR_OK" THEN add_data_to_set(m1, vals) ELSE m1

\* parse_data_line with the data set moved at the end of every line
data_line_move_each_line(m3) ==
    IF m3.ret = "SR_OK" /\ m3.inc.num_vals_per_set # 0
    THEN move_data_to_sweep(m3)
    ELSE m3

\* parse_data_line, the move of a complete data set
data_line_move(m3) ==
    IF /\ m3.ret = "SR_OK" /\ m3.inc.num_vals_per_set # 0
       /\ m3.inc.data_set_count >= m3.inc.num_vals_per_set
    THEN move_data_to_sweep(m3)
    ELSE m3

\* parse_data_line after parse_data_line_numbers has returned pn
parse_data_values(m, pn) ==
    IF ~pn.ok THEN [m EXCEPT !.ret = "SR_ERR"]
    ELSE IF Len(pn.vals) = 0 THEN [m EXCEPT !.ret = "SR_OK"]
    ELSE data_line_move(
            noise_start(data_line_add(data_line_start(m, pn.vals), pn.vals)))

parse_data_line(m, line) ==
    parse_data_values(m, parse_data_line_numbers(line))

---------------------------------------------------------------------------
(* Keyword lines *)

\* fwd_to: the text after word, or no_match
fwd_to(line, word) ==
    IF HasPrefix(line, Chars(word))
    THEN [match |-> TRUE, ptr |-> StrChug(From(line, Len(word) + 1))]
    ELSE [match |-> FALSE, ptr |-> <<>>]

RECURSIVE parse_references_from(_, _)
\* the loop of parse_references after sr_atod has returned r for the piece
\* before toks
parse_reference(m, r, toks) ==
    IF ~r.ok THEN [m EXCEPT !.ret = "SR_ERR"]
    ELSE parse_references_from(
            [m EXCEPT !.inc.reference_resistances =
                          Store(@, m.inc.num_references_found, r.val),
                      !.inc.num_references_found = @ + 1],
            toks)

\* the loop of parse_references over the pieces of the line
parse_references_from(m, toks) ==
    IF toks = <<>> \/ m.inc.num_references_found >= m.inc.num_ports
    THEN [m EXCEPT !.ret = "SR_OK"]
    ELSE IF Head(toks) = <<>> THEN parse_references_from(m, Tail(toks))
    ELSE parse_reference(m, sr_atod(Head(toks)), Tail(toks))

\* parse_references that ends the PS_REFERENCES state with every line
references_found_each_line(m1) ==
    IF m1.ret # "SR_OK" THEN m1
    ELSE send_reference_information([m1 EXCEPT !.inc.state = "PS_KEYWORDS"])

\* parse_references after its loop has returned m1
references_found(m1) ==
    IF m1.ret # "SR_OK" THEN m1
    ELSE IF m1.inc.num_references_found = m1.inc.num_ports
    THEN send_reference_information([m1 EXCEPT !.inc.state = "PS_KEYWORDS"])
    ELSE m1

parse_references(m, line) ==
    references_found(parse_references_from(m, StrSplit(line, SPC)))

\* the matrix format that the [MATRIX FORMAT] argument names, "" if none
matrix_format_of(ptr) ==
    IF StrStr(ptr, Chars("FULL")) > 0 THEN "MF_FULL"
    ELSE IF StrStr(ptr, Chars("LOWER")) > 0 THEN "MF_LOWER"
    ELSE IF StrStr(ptr, Chars("UPPER")) > 0 THEN "MF_UPPER"
    ELSE ""

\* parse_key_line with [NETWORK DATA] accepted before the port count is known
parse_key_line_without_ports(m, line) ==
    LET c   == m.inc
        ok  == [m EXCEPT !.ret = "SR_OK"]
        err == [m EXCEPT !.ret = "SR_ERR"]
        np  == fwd_to(line, "[NUMBER OF PORTS]")
        tpo == fwd_to(line, "[TWO-PORT ORDER]")
        nf  == fwd_to(line, "[NUMBER OF FREQUENCIES]")
        nnf == fwd_to(line, "[NUMBER OF NOISE FREQUENCIES]")
        ref == fwd_to(line, "[REFERENCE]")
        mf  == fwd_to(line, "[MATRIX FORMAT]")
        mmo == fwd_to(line, "[MIXED-MODE ORDER]")
        bi  == fwd_to(line, "[BEGIN INFORMATION]")
        nd  == fwd_to(line, "[NETWORK DATA]")
    IN  CASE np.match ->
               LET i == sr_atoi(np.ptr)
               IN  IF ~i.ok THEN err
                   ELSE [ok EXCEPT !.inc.num_ports = i.val,
                                   !.inc.num_vals_per_set = i.val * i.val * 2 + 1]
          [] tpo.match ->
               IF StrStr(tpo.ptr, Chars("12_21")) > 0
               THEN [ok EXCEPT !.inc.two_port_data_order = "TP_ORDER_12_21"]
               ELSE IF StrStr(tpo.ptr, Chars("21_12")) > 0
               THEN [ok EXCEPT !.inc.two_port_data_order = "TP_ORDER_21_12"]
               ELSE err
          [] nf.match ->
               LET i == sr_atoi(nf.ptr)
               IN  IF ~i.ok THEN err ELSE [ok EXCEPT !.inc.sweep_points = i.val]
          [] nnf.match ->
               LET i == sr_atoi(nnf.ptr)
               IN  IF ~i.ok THEN err
                   ELSE [ok EXCEPT !.inc.sweep_points_noise = i.val]
          [] ref.match ->
               IF c.num_ports = 0 THEN err
               ELSE parse_references(
                      [m EXCEPT !.inc.reference_resistances = Malloc(c.num_ports),
                                !.inc.num_references_found = 0,
                                !.inc.state = "PS_REFERENCES"],
                      ref.ptr)
          [] mf.match ->
               LET f == matrix_format_of(mf.ptr)
               IN  IF c.num_ports = 0 \/ f = "" THEN err
                   ELSE [ok EXCEPT !.inc.matrix_format = f,
                                   !.inc.num_vals_per_set =
                                       IF f = "MF_FULL"
                                       THEN 2 * c.num_ports * c.num_ports + 1
                                       ELSE c.num_ports * c.num_ports + c.num_ports + 1]
          [] mmo.match -> err
          [] bi.match -> [ok EXCEPT !.inc.state = "PS_SKIP_INFO"]
          [] nd.match -> [ok EXCEPT !.inc.state = "PS_DATA_LINES"]
          [] OTHER -> ok

parse_key_line(m, line) ==
    LET c   == m.inc
        ok  == [m EXCEPT !.ret = "SR_OK"]
        err == [m EXCEPT !.ret = "SR_ERR"]
        np  == fwd_to(line, "[NUMBER OF PORTS]")
        tpo == fwd_to(line, "[TWO-PORT ORDER]")
        nf  == fwd_to(line, "[NUMBER OF FREQUENCIES]")
        nnf == fwd_to(line, "[NUMBER OF NOISE FREQUENCIES]")
        ref == fwd_to(line, "[REFERENCE]")
        mf  == fwd_to(line, "[MATRIX FORMAT]")
        mmo == fwd_to(line, "[MIXED-MODE ORDER]")
        bi  == fwd_to(line, "[BEGIN INFORMATION]")
        nd  == fwd_to(line, "[NETWORK DATA]")
    IN  CASE np.match ->
               LET i == sr_atoi(np.ptr)
               IN  IF ~i.ok THEN err
                   ELSE [ok EXCEPT !.inc.num_ports = i.val,
                                   !.inc.num_vals_per_set = i.val * i.val * 2 + 1]
          [] tpo.match ->
               IF StrStr(tpo.ptr, Chars("12_21")) > 0
               THEN [ok EXCEPT !.inc.two_port_data_order = "TP_ORDER_12_21"]
               ELSE IF StrStr(tpo.ptr, Chars("21_12")) > 0
               THEN [ok EXCEPT !.inc.two_port_data_order = "TP_ORDER_21_12"]
               ELSE err
          [] nf.match ->
               LET i == sr_atoi(nf.ptr)
               IN  IF ~i.ok THEN err ELSE [ok EXCEPT !.inc.sweep_points = i.val]
          [] nnf.match ->
               LET i == sr_atoi(nnf.ptr)
               IN  IF ~i.ok THEN err
                   ELSE [ok EXCEPT !.inc.sweep_points_noise = i.val]
          [] ref.match ->
               IF c.num_ports = 0 THEN err
               ELSE parse_references(
                      [m EXCEPT !.inc.reference_resistances = Malloc(c.num_ports),
                                !.inc.num_references_found = 0,
                                !.inc.state = "PS_REFERENCES"],
                      ref.ptr)
          [] mf.match ->
               LET f == matrix_format_of(mf.ptr)
               IN  IF c.num_ports = 0 \/ f = "" THEN err
                   ELSE [ok EXCEPT !.inc.matrix_format = f,
                                   !.inc.num_vals_per_set =
                                       IF f = "MF_FULL"
                                       THEN 2 * c.num_ports * c.num_ports + 1
                                       ELSE c.num_ports * c.num_ports + c.num_ports + 1]
          [] mmo.match -> err
          [] bi.match -> [ok EXCEPT !.inc.state = "PS_SKIP_INFO"]
          [] nd.match ->
               IF c.num_ports = 0 THEN err
               ELSE [ok EXCEPT !.inc.state = "PS_DATA_LINES"]
          [] OTHER -> ok

---------------------------------------------------------------------------
(* State machine *)

\* case PS_START_FILE
ps_start_file(m, line) ==
    IF line[1] = "#"
    THEN parse_option_line([m EXCEPT !.inc.file_version = 1,
                                     !.inc.state = "PS_DATA_LINES"], line)
    ELSE IF line[1] = "["
    THEN parse_version_line([m EXCEPT !.inc.state = "PS_OPTION_LINE"], line)
    ELSE [m EXCEPT !.ret = "SR_ERR"]

\* case PS_OPTION_LINE
ps_option_line(m, line) ==
    IF line[1] # "#" THEN [m EXCEPT !.ret = "SR_ERR"]
    ELSE parse_option_line([m EXCEPT !.inc.state = "PS_NUM_PORTS"], line)

\* case PS_NUM_PORTS without the test of the first character
ps_num_ports_unchecked(m, line) ==
    parse_key_line([m EXCEPT !.inc.state = "PS_KEYWORDS"], line)

\* case PS_NUM_PORTS
ps_num_ports(m, line) ==
    IF line[1] # "[" THEN [m EXCEPT !.ret = "SR_ERR"]
    ELSE parse_key_line([m EXCEPT !.inc.state = "PS_KEYWORDS"], line)

\* case PS_KEYWORDS
ps_keywords(m, line) ==
    IF line[1] = "[" THEN parse_key_line(m, line)
    ELSE parse_data_line([m EXCEPT !.inc.state = "PS_DATA_LINES"], line)

\* case PS_SKIP_INFO
ps_skip_info(m, line) ==
    IF fwd_to(line, "[END INFORMATION]").match
    THEN [m EXCEPT !.inc.state = "PS_KEYWORDS", !.ret = "SR_OK"]
    ELSE [m EXCEPT !.ret = "SR_OK"]

\* case PS_NOISE_DATA, which case PS_DATA_LINES falls through to
ps_noise_data(m, line) ==
    IF line[1] = "[" /\ fwd_to(line, "[END]").match
    THEN [send_sweep_information(m) EXCEPT !.ret = "SR_OK"]
    ELSE parse_data_line(m, line)

\* noise_keyword with the sweep sent before the test of the port count
noise_keyword_flush_first(m) ==
    LET c == m.inc
    IN  IF c.num_ports # 2
        THEN [send_sweep_information(m) EXCEPT !.ret = "SR_ERR"]
        ELSE [send_sweep_information(m) EXCEPT
                !.inc.sweep_size = (@ * c.num_ports * c.num_ports * 2) \div 5,
                !.inc.state = "PS_NOISE_DATA",
                !.inc.num_vals_per_set = 5,
                !.ret = "SR_OK"]

\* the [NOISE DATA] branch of case PS_DATA_LINES
noise_keyword(m) ==
    LET c == m.inc
    IN  IF c.num_ports # 2 THEN [m EXCEPT !.ret = "SR_ERR"]
        ELSE [send_sweep_information(m) EXCEPT
                !.inc.sweep_size = (@ * c.num_ports * c.num_ports * 2) \div 5,
                !.inc.state = "PS_NOISE_DATA",
                !.inc.num_vals_per_set = 5,
                !.ret = "SR_OK"]

\* case PS_DATA_LINES
ps_data_lines(m, line) ==
    IF line[1] = "[" /\ fwd_to(line, "[NOISE DATA]").match
    THEN noise_keyword(m)
    ELSE ps_noise_data(m, line)

\* process_line with every option line parsed, also after the first one
process_line_every_option(m0, line) ==
    LET m == [m0 EXCEPT !.handed = Append(@, line)]
        st == m.inc.state
    IN  IF st \notin {"PS_START_FILE", "PS_OPTION_LINE"} /\ line[1] = "#"
        THEN parse_option_line(m, line)
        ELSE CASE st = "PS_START_FILE" -> ps_start_file(m, line)
               [] st = "PS_OPTION_LINE" -> ps_option_line(m, line)
               [] st = "PS_NUM_PORTS" -> ps_num_ports(m, line)
               [] st = "PS_KEYWORDS" -> ps_keywords(m, line)
               [] st = "PS_REFERENCES" -> parse_references(m, line)
               [] st = "PS_SKIP_INFO" -> ps_skip_info(m, line)
               [] st = "PS_DATA_LINES" -> ps_data_lines(m, line)
               [] OTHER -> ps_noise_data(m, line)

process_line(m0, line) ==
    LET m == [m0 EXCEPT !.handed = Append(@, line)]
        st == m.inc.state
    IN  IF st \notin {"PS_START_FILE", "PS_OPTION_LINE"} /\ line[1] = "#"
        THEN [m EXCEPT !.ret = "SR_OK"]
        ELSE CASE st = "PS_START_FILE" -> ps_start_file(m, line)
               [] st = "PS_OPTION_LINE" -> ps_option_line(m, line)
               [] st = "PS_NUM_PORTS" -> ps_num_ports(m, line)
               [] st = "PS_KEYWORDS" -> ps_keywords(m, line)
               [] st = "PS_REFERENCES" -> parse_references(m, line)
               [] st = "PS_SKIP_INFO" -> ps_skip_info(m, line)
               [] st = "PS_DATA_LINES" -> ps_data_lines(m, line)
               [] OTHER -> ps_noise_data(m, line)

---------------------------------------------------------------------------
(* Lexical chunker *)

strip_comment(line) ==
    LET k == StrStr(line, <<"!">>)
    IN  StrStrip(IF k > 0 THEN SubSeq(line, 1, k - 1) ELSE line)

\* g_string_ascii_up, then every tab to a space and every CR to a newline
normalize(buf) ==
    Tuple([i \in 1..Len(buf) |->
              LET u == AsciiUp(buf[i])
              IN  IF u = TAB THEN SPC ELSE IF u = CR THEN NL ELSE u])

RECURSIVE process_lines(_, _)
\* the loop of process_buffer after process_line has returned m1 for the
\* piece before lines
processed_line(m1, lines) ==
    IF m1.ret # "SR_OK" THEN m1 ELSE process_lines(m1, lines)

\* the loop of process_buffer over the pieces of the buffer
process_lines(m, lines) ==
    IF lines = <<>> THEN m
    ELSE IF strip_comment(Head(lines)) = <<>>
    THEN process_lines(m, Tail(lines))
    ELSE processed_line(process_line(m, strip_comment(Head(lines))),
                        Tail(lines))

\* process_up_to with the whole buffer consumed also before end of file
process_up_to_eager(buf, is_eof) == Len(buf)

\* number of bytes of the normalized buffer that this call consumes: all
\* of it at end of file, else up to and including the last newline
process_up_to(buf, is_eof) == IF is_eof THEN Len(buf) ELSE StrRChr(buf, NL)

process_buffer(m, is_eof) ==
    LET m1  == IF m.inc.started THEN m
               ELSE sr_session_send(
                      sr_session_send([m EXCEPT !.inc.started = TRUE],
                                      Marker("SR_DF_HEADER")),
                      Marker("SR_DF_FRAME_BEGIN"))
        buf == normalize(m.buf)
        cut == process_up_to(buf, is_eof)
        txt == IF is_eof THEN buf ELSE SubSeq(buf, 1, cut - 1)
        m2  == process_lines([m1 EXCEPT !.buf = buf, !.ret = "SR_OK"],
                             StrSplit(txt, NL))
    IN  IF Len(m.buf) = 0 THEN [m1 EXCEPT !.ret = "SR_OK"]
        ELSE IF cut = 0 THEN [m1 EXCEPT !.buf = buf, !.ret = "SR_OK"]
        ELSE [m2 EXCEPT !.buf = From(buf, cut + 1)]

receive(m, chunk) ==
    LET m1 == [m EXCEPT !.buf = @ \o chunk]
    IN  IF ~m.sdi_ready
        THEN [m1 EXCEPT !.sdi_ready = TRUE, !.ret = "SR_OK"]
        ELSE process_buffer(m1, FALSE)

\* end(), the end of the stream; m4.ret is the return code kept from the
\* steps before the markers
end_stream(m4) ==
    IF m4.inc.started
    THEN [sr_session_send(m4, Marker("SR_DF_END")) EXCEPT !.ret = m4.ret]
    ELSE m4

\* end(), the end of the frame
end_frame(m3) ==
    [sr_session_send(m3, Marker("SR_DF_FRAME_END")) EXCEPT !.ret = m3.ret]

\* end(), the sweep that is still held
end_sweep(m2) ==
    IF m2.ret = "SR_OK" THEN send_sweep_information(m2) ELSE m2

\* end() without the port count inference
end_inference_skipped(m1) == m1

\* end(), the port count inference of a file that ends after its first set
end_inference(m1) ==
    IF /\ m1.inc.file_version = 1 /\ m1.inc.num_ports = 0
       /\ m1.inc.data_set_count # 0
    THEN infer_num_ports(m1)
    ELSE m1

end(m) ==
    end_stream(end_frame(end_sweep(end_inference(
        IF m.sdi_ready THEN process_buffer(m, TRUE)
        ELSE [m EXCEPT !.ret = "SR_OK"]))))

---------------------------------------------------------------------------
(* Input files *)

\* version 1 files and files with errors, noise data and wrapped keywords
Files ==
    << "# GHZ S MA R 50\n1.0 0.5 90\n",
       "! two-port\r\n# hz s ma r 50\r\n1 11 12 13 14 15 16 17 18 ! a\n\n2 21 22 23 24\t25 26 27 28",
       "# HZ S DB\n5 1 2 3 4 5 6 7 8\n6 11 12 13 14 15 16 17 18\n2 3 4 5 6\n3 4 5 6 7\n",
       "# MHZ Z RI R 75\n1 0 0\n2 3 4\n3 0 -6\n",
       "# KHZ Y MA\n1 1 2 3 4 5 6\n7 8 9 10 11 12\n13 14 15 16 17 18\n2 21 22 23 24 25 26\n27 28 29 30 31 32\n33 34 35 36 37 38\n",
       "1 2 3\n# HZ\n4 5 6\n",
       "# HZ\n1 2 3\n1 4 5\n1 6 7\n",
       "# HZ\n1 2\n3\n",
       "[VERSION] 2.0\n# HZ S MA R 50\n[NUMBER OF PORTS] 1\n[NETWORK DATA]\n1 5 90\n[END]\n",
       "[Version] 2.0\n# MHz Z RI\n[Number of Ports] 2\n[Two-Port Order] 12_21\n[Number of Frequencies] 2\n[Begin Information]\nfoo\n[End Information]\n[Reference] 50\n75\n[Network Data]\n1 1 2 3 4 5 6 7 8\n2 11 12 13 14 15 16 17 18\n[Noise Data]\n1 2 3 4 5\n2 3 4 5 6\n[End]\n",
       "[VERSION] 2.0\n# HZ S DB R 50\n[NUMBER OF PORTS] 2\n[REFERENCE] 50 60\n1 1 2 3 4 5 6 7 8\n[END]\n9 1 2 3 4 5 6 7 8\n",
       "[VERSION] 1.0\n# HZ\n",
       "[VERSION] 2.01\n# HZ\n[NUMBER OF PORTS] 1\n[NETWORK DATA]\n1 2 3\n",
       "[VERSION] 2.0\n1 2 3\n# HZ\n",
       "[VERSION] 2.0\n# HZ\n# MHZ\n1 2 3\n",
       "[NUMBER OF PORTS] 1\n# HZ\n[NUMBER OF PORTS] 1\n1 2 3\n",
       "[VERSION] 2.0\n# HZ\n[BEGIN INFORMATION]\n[END INFORMATION]\n1 2 3\n4 5 6\n",
       "[VERSION] 2.0\n# HZ S MA R 50\n[NUMBER OF PORTS] 1\n[NETWORK DATA]\n1 5 90 2 6\n91\n[END]\n",
       "[VERSION] 2.0\n# HZ\n[NUMBER OF PORTS] 1\n[NETWORK DATA]\n2 5 90\n1 6 91\n[NOISE DATA]\n1 2 3 4 5\n",
       "[VERSION] 2.0\n# HZ\n[NUMBER OF PORTS] 1\n[MIXED-MODE ORDER] D1\n[NETWORK DATA]\n1 2 3\n",
       "# HZ\n1 2 3\nX",
       "# HZ\n0 1 2\n",
       "# HZ\n1 2 3 4 5\n6 7 8 9\n",
       "[VERSION] 2.0\n# HZ\n[NUMBER OF PORTS] 1\n[REFERENCE] 50\n[NUMBER OF PORTS] 2\n[NETWORK DATA]\n1 1 2 3 4 5 6 7 8\n",
       "[VERSION] 2.0\n# HZ R 75\n[NUMBER OF PORTS] 2\n[REFERENCE] 0 -5\n[NETWORK DATA]\n1 1 2 3 4 5 6 7 8\n",
       "[VERSION] 2.0\n# HZ\n[TWO-PORT ORDER] 12_21\n[MATRIX FORMAT] LOWER\n[REFERENCE] 50\n[NETWORK DATA]\n1 2 3\n",
       "[VERSION] 2.0\n# HZ\n[NETWORK DATA]\n1 2 3\n",
       "# HZ FOO S\n1 2 3\n",
       "",
       "[VERSION] 2.0\n# HZ S MA\n[NUMBER OF PORTS] 2\n[REFERENCE]\n50\n60 70\n",
       "[VERSION] 2.0\n# HZ S MA\n[NUMBER OF PORTS] 2\n[NUMBER OF FREQUENCIES] 2\n1 2 3 4 5 6 7 8 9\n[NOISE DATA]\n1 2 3 4 5\n2 2 3 4 5\n3 2 3 4 5\n",
       "[VERSION] 2.0\n# HZ\n[NUMBER OF PORTS] 2\n[MATRIX FORMAT] LOWER\n[NUMBER OF PORTS] 2\n1 2 3\n",
       "# HZ\n1 2 3\n# MHZ\n2 4 5\n" >>

RECURSIVE Values(_, _, _)
\* " v v+1 ... v+n-1"
Values(v, n, acc) ==
    IF n = 0 THEN acc
    ELSE Values(v + 1, n - 1, acc \o " " \o ToString(v))

\* number of values after the frequency of one row
RowLen(N, mf) == IF mf \in {"", "FULL"} THEN 2 * N * N ELSE N * N + N

RECURSIVE Rows(_, _, _)
\* k rows, the frequencies k ... 1 counted down from the last row
Rows(k, n, acc) ==
    IF k = 0 THEN acc
    ELSE Rows(k - 1, n, ToString(k) \o Values(30 * k - 20, n, "") \o "\n" \o acc)

\* a version 2 file of N ports; order and mf are "" when the keyword is absent
V2File(N, fmt, order, mf) ==
    "[VERSION] 2.0\n# HZ S " \o fmt \o " R 50\n"
    \o "[NUMBER OF PORTS] " \o ToString(N) \o "\n"
    \o (IF order = "" THEN "" ELSE "[TWO-PORT ORDER] " \o order \o "\n")
    \o (IF mf = "" THEN "" ELSE "[MATRIX FORMAT] " \o mf \o "\n")
    \o "[NETWORK DATA]\n"
    \o Rows(NumRows, RowLen(N, mf), "")
    \o "[END]\n"

Formats == <<"DB", "MA", "RI">>
MatrixFormats == <<"", "LOWER", "UPPER">>

\* the generated files: every port count with every matrix format, the
\* number format taken in turn so that each one meets each matrix format
\* and each port count, and for two ports every form of the
\* [TWO-PORT ORDER] keyword
V2Files ==
    UNION {{V2File(N, Formats[((N + f + 1) % Len(Formats)) + 1], order,
                   MatrixFormats[f]) :
                f \in 1..Len(MatrixFormats),
                order \in IF N = 2 THEN {"", "12_21", "21_12"} ELSE {""}} :
           N \in 1..MaxPorts}

Streams == {Chars(Files[i]) : i \in 1..Len(Files)} \cup {Chars(f) : f \in V2Files}

JunkValues == {<<"junk", 1>>, <<"junk", 2>>}

---------------------------------------------------------------------------
(* format_match *)

\* default_dot_exts
default_dot_exts ==
    {Chars(".s1p"), Chars(".s2p"), Chars(".s3p"), Chars(".s4p"),
     Chars(".s5p"), Chars(".s6p"), Chars(".s7p"), Chars(".s8p")}

\* default_exts
default_exts ==
    {Chars("s1p"), Chars("s2p"), Chars("s3p"), Chars("s4p"),
     Chars("s5p"), Chars("s6p"), Chars("s7p"), Chars("s8p")}

\* a metadata table: has_fn and has_buf tell whether the lookup of the
\* file name and of the header finds an entry
Metadata(has_fn, fn, has_buf, buf) ==
    [has_fn |-> has_fn, fn |-> fn, has_buf |-> has_buf, buf |-> buf]

NoMetadata == Metadata(FALSE, <<>>, FALSE, <<>>)

\* format_match with the file name compared with default_exts
format_match_without_dot(md, conf) ==
    IF md.has_fn /\ md.fn # <<>>
       /\ \E ext \in default_exts : HasSuffix(md.fn, ext)
    THEN [ret |-> "SR_OK", confidence |-> 10]
    ELSE [ret |-> "SR_ERR", confidence |-> conf]

\* format_match; conf is *confidence before the call
format_match(md, conf) ==
    IF md.has_fn /\ md.fn # <<>>
       /\ \E ext \in default_dot_exts : HasSuffix(md.fn, ext)
    THEN [ret |-> "SR_OK", confidence |-> 10]
    ELSE [ret |-> "SR_ERR", confidence |-> conf]

---------------------------------------------------------------------------
(* Actions *)

\* the input object made of the variables
Machine ==
    [buf |-> in_buf, sdi_ready |-> sdi_ready, inc |-> inc, session |-> session,
     pts |-> pts, handed |-> handed, ret |-> ret]

\* the variables take the fields of the input object after a call
Becomes(m) ==
    /\ in_buf' = m.buf
    /\ sdi_ready' = m.sdi_ready
    /\ inc' = m.inc
    /\ session' = m.session
    /\ pts' = m.pts
    /\ handed' = m.handed
    /\ ret' = m.ret
    /\ failed' = (failed \/ m.ret # "SR_OK")

Init ==
    /\ stream \in Streams
    /\ junk \in JunkValues
    /\ pos = 0
    /\ in_buf = InitMachine.buf
    /\ sdi_ready = InitMachine.sdi_ready
    /\ inc = InitMachine.inc
    /\ session = InitMachine.session
    /\ pts = InitMachine.pts
    /\ handed = InitMachine.handed
    /\ ret = InitMachine.ret
    /\ failed = FALSE
    /\ pc = "open"
    /\ metadata = NoMetadata
    /\ confidence = 0
    /\ match_ret = "NONE"

\* the sizes of the next chunk: up to MaxChunk bytes, or all that is left
\* while no more than MaxChunk bytes have been given
ChunkSizes ==
    {n \in 1..(Len(stream) - pos) :
        n <= MaxChunk \/ (n = Len(stream) - pos /\ pos <= MaxChunk)}

\* the caller gives the next n bytes of the file to receive()
Receive(n) ==
    /\ pc = "open"
    /\ n \in ChunkSizes
    /\ Becomes(receive(Machine, SubSeq(stream, pos + 1, pos + n)))
    /\ pos' = pos + n
    /\ UNCHANGED <<stream, junk, pc>>
    /\ UNCHANGED matchvars

\* the caller calls end() after the last byte
End ==
    /\ pc = "open"
    /\ pos = Len(stream)
    /\ Becomes(end(Machine))
    /\ pc' = "ended"
    /\ UNCHANGED <<stream, junk, pos>>
    /\ UNCHANGED matchvars

Next == (\E n \in 1..Len(stream) : Receive(n)) \/ End

Spec == Init /\ [][Next]_vars

---------------------------------------------------------------------------
(* Reset and a second reading of the file *)

\* reset(): the module's handler
reset(m) == [m EXCEPT !.inc.started = FALSE, !.buf = <<>>, !.ret = "SR_OK"]

\* the caller resets the input, at any time; sr_input_reset, the caller of
\* the handler, may clear sdi_ready or leave it; the observation of the feed
\* and of the handed lines starts again
Reset(clear) ==
    /\ pc \in {"open", "ended"}
    /\ in_buf' = reset(Machine).buf
    /\ sdi_ready' = (IF clear THEN FALSE ELSE reset(Machine).sdi_ready)
    /\ inc' = reset(Machine).inc
    /\ pts' = reset(Machine).pts
    /\ ret' = reset(Machine).ret
    /\ session' = <<>>
    /\ handed' = <<>>
    /\ failed' = FALSE
    /\ pos' = 0
    /\ pc' = "rearmed"
    /\ UNCHANGED <<stream, junk>>
    /\ UNCHANGED matchvars

\* after the reset the caller gives the whole file to receive()
ReceiveAgain ==
    /\ pc = "rearmed"
    /\ Becomes(receive(Machine, stream))
    /\ pos' = Len(stream)
    /\ pc' = "refed"
    /\ UNCHANGED <<stream, junk>>
    /\ UNCHANGED matchvars

\* and calls end()
EndAgain ==
    /\ pc = "refed"
    /\ Becomes(end(Machine))
    /\ pc' = "reended"
    /\ UNCHANGED <<stream, junk, pos>>
    /\ UNCHANGED matchvars

NextReset ==
    \/ \E n \in 1..Len(stream) : Receive(n)
    \/ End
    \/ \E clear \in BOOLEAN : Reset(clear)
    \/ ReceiveAgain
    \/ EndAgain

SpecReset == Init /\ [][NextReset]_vars

---------------------------------------------------------------------------
(* The format is matched before an input is created *)

\* the beginnings of the file names
Stems == {"", "a", "dir/b.x", "c.s2p"}

\* the ends of the file names
Endings ==
    {"", ".s0p", ".s1p", ".s2p", ".s3p", ".s4p", ".s5p", ".s6p", ".s7p",
     ".s8p", ".s9p", ".S2P", ".s2P", ".s10p", ".sp", "s1p", ".s2p.txt",
     ".s2pp", ".snp", ".t2p", ".s2p "}

FileNames == {Chars(a \o b) : a \in Stems, b \in Endings}

\* the first bytes of the file, as the header entry of the table
Headers == {"", "# HZ S MA R 50\n", "[VERSION] 2.0\n", "PK"}

MetadataTables ==
    {Metadata(TRUE, fn, TRUE, Chars(h)) : fn \in FileNames, h \in Headers}
    \cup {Metadata(FALSE, <<>>, TRUE, Chars(h)) : h \in Headers}
    \cup {Metadata(TRUE, fn, FALSE, <<>>) : fn \in FileNames}
    \cup {NoMetadata}

\* values of *confidence before the call
Confidences == {0, 10, 100}

InitMatch ==
    /\ metadata \in MetadataTables
    /\ confidence \in Confidences
    /\ match_ret = "NONE"
    /\ pc = "match"
    /\ stream = <<>>
    /\ junk \in JunkValues
    /\ pos = 0
    /\ in_buf = InitMachine.buf
    /\ sdi_ready = InitMachine.sdi_ready
    /\ inc = InitMachine.inc
    /\ session = InitMachine.session
    /\ pts = InitMachine.pts
    /\ handed = InitMachine.handed
    /\ ret = InitMachine.ret
    /\ failed = FALSE

\* the library calls format_match with the table
FormatMatch ==
    /\ pc = "match"
    /\ match_ret' = format_match(metadata, confidence).ret
    /\ confidence' = format_match(metadata, confidence).confidence
    /\ pc' = "matched"
    /\ UNCHANGED <<stream, pos, in_buf, sdi_ready, inc, session, pts, handed,
                   ret, failed, junk, metadata>>

NextMatch == FormatMatch

SpecMatch == InitMatch /\ [][NextMatch]_vars

---------------------------------------------------------------------------
(* Reading the data feed *)

IsAnalog(p) == p.type = "SR_DF_ANALOG"
IsReference(p) == IsAnalog(p) /\ p.mq = "SR_MQ_RESISTANCE"
IsFrequency(p) == IsAnalog(p) /\ p.mq = "SR_MQ_FREQUENCY"
IsParameter(p) == IsAnalog(p) /\ p.mq = "SR_MQ_N_PORT_PARAMETER"
IsNoise(p) == IsParameter(p) /\ p.mqflags = "SR_MQFLAG_TWO_PORT_NOISE_DATA"
IsNetwork(p) == IsParameter(p) /\ ~IsNoise(p)

\* the reference, frequency and parameter packets of a feed, in order
DataPackets(feed) == SelectSeq(feed, IsAnalog)

IsPrefix(a, b) == Len(a) <= Len(b) /\ SubSeq(b, 1, Len(a)) = a

NonEmpty(line) == line # <<>>

RECURSIVE MapStrip(_)
MapStrip(lines) ==
    IF lines = <<>> THEN <<>>
    ELSE <<strip_comment(Head(lines))>> \o MapStrip(Tail(lines))

\* the logical lines of a text: comments and surrounding blanks removed,
\* empty lines dropped
LogicalLines(text) == SelectSeq(MapStrip(StrSplit(normalize(text), NL)), NonEmpty)

\* the bytes given to receive() so far, up to the last line terminator
ArrivedLines ==
    LET fed == normalize(SubSeq(stream, 1, pos))
    IN  SubSeq(fed, 1, StrRChr(fed, NL))

\* the whole file given to receive() in one call, then end()
OneChunk == end(receive(InitMachine, stream))

---------------------------------------------------------------------------
(* C1 *)

\* C1: when no call returns an error, the reference, frequency and
\* parameter packets received after end() are those of the run that gives
\* the whole file in one chunk, whatever the chunks were; while the file is
\* being given, the lines handed to process_line are, in input order, whole
\* lines whose terminator has arrived, and after end() they are all the
\* lines of the file.
C1_ChunkingInvisible ==
    ~failed =>
        /\ pc = "open" => IsPrefix(handed, LogicalLines(ArrivedLines))
        /\ pc = "ended" =>
            /\ handed = LogicalLines(stream)
            /\ DataPackets(session) = DataPackets(OneChunk.session)

\* lines were processed during receive(), a sweep has been sent and the
\* beginning of a later line waits in the buffer
C1_Witness ==
    /\ pc = "open" /\ ~failed
    /\ Len(handed) >= 2
    /\ in_buf # <<>>
    /\ \E i \in 1..Len(session) : IsFrequency(session[i])

---------------------------------------------------------------------------
(* C2 *)

\* number of doubles that a sweep point takes in sweep_data
PointEntries(pt) ==
    IF pt.state = "PS_NOISE_DATA" THEN 5 ELSE 2 * pt.num_ports * pt.num_ports

\* C2: in the feed every frequency packet comes from a flush of sweep_count
\* > 0 points, holds sweep_count values and is directly followed by the
\* parameter packet of the same points, which holds sweep_count * E values,
\* E = 2*N*N for network points and 5 for noise points; a parameter packet
\* is never sent in another place, and a flush of no point sends nothing.
C2_FlushEmitsPair ==
    \A i \in 1..Len(session) :
        /\ IsFrequency(session[i]) =>
            /\ i < Len(session)
            /\ IsParameter(session[i + 1])
            /\ session[i + 1].src = session[i].src
            /\ Len(session[i].src) > 0
            /\ Len(session[i].data) = Len(session[i].src)
            /\ \A k \in 1..Len(session[i].src) :
                  Len(session[i + 1].data) =
                      Len(session[i].src) * PointEntries(session[i].src[k])
        /\ IsParameter(session[i]) => i > 1 /\ IsFrequency(session[i - 1])

\* a network sweep of two points and a noise sweep have been flushed
C2_Witness ==
    /\ \E i \in 1..Len(session) :
          IsNetwork(session[i]) /\ Len(session[i].src) >= 2
    /\ \E i \in 1..Len(session) :
          IsNoise(session[i]) /\ Len(session[i].data) = 5 * Len(session[i].src)

---------------------------------------------------------------------------
(* C3 *)

ParameterKinds == {"S", "Y", "Z", "G", "H"}

\* C3: a parameter packet with the noise marker holds only points that
\* were stored in PS_NOISE_DATA, and any other parameter packet carries a
\* parameter kind and holds only points that were stored in PS_DATA_LINES.
C3_NoMixedPacket ==
    \A i \in 1..Len(session) :
        IsParameter(session[i]) =>
            \A k \in 1..Len(session[i].src) :
                IF IsNoise(session[i])
                THEN session[i].src[k].state = "PS_NOISE_DATA"
                ELSE /\ session[i].mqflags \in ParameterKinds
                     /\ session[i].src[k].state = "PS_DATA_LINES"

\* network points and, after the transition, noise points have been sent
C3_Witness ==
    \E i, j \in 1..Len(session) :
        /\ i < j
        /\ IsNetwork(session[i]) /\ Len(session[i].src) > 0
        /\ IsNoise(session[j]) /\ Len(session[j].src) > 0

---------------------------------------------------------------------------
(* Reading the sweep points of a parameter packet *)

\* the doubles of sweep point k (from 1) in the data of parameter packet p
Block(p, k) ==
    LET E == Len(p.data) \div Len(p.src)
    IN  SubSeq(p.data, (k - 1) * E + 1, k * E)

\* pair q (from 0) of a sequence of doubles
PairAt(s, q) == <<s[2 * q + 1], s[2 * q + 2]>>

\* the values of a data-set after the frequency, as they came in
Payload(pt) == Tail(pt.set)

\* the parameter packets of the feed with the number of a point of each
SentPoints ==
    UNION {{<<n, k>> : k \in 1..Len(session[n].src)} :
              n \in {x \in 1..Len(session) : IsParameter(session[x])}}

Min(a, b) == IF a <= b THEN a ELSE b
Max(a, b) == IF a >= b THEN a ELSE b

\* place (from 0) among the pairs of the input of element [i, j],
\* i <= j, of an upper triangle given row by row
UpperIndex(N, i, j) == i * N - (i * (i - 1)) \div 2 + (j - i)

\* place (from 0) among the pairs of the input of element [i, j],
\* j <= i, of a lower triangle given row by row
LowerIndex(i, j) == (i * (i + 1)) \div 2 + j

\* place among the pairs of the input of the value of element [i, j]
TriangleIndex(mf, N, i, j) ==
    IF mf = "MF_UPPER" THEN UpperIndex(N, Min(i, j), Max(i, j))
    ELSE LowerIndex(Max(i, j), Min(i, j))

---------------------------------------------------------------------------
(* C4 *)

\* C4: whenever a parameter packet is in the feed, a reference packet with
\* one value per port is in the feed before it, in both file versions and
\* also when the file has no [REFERENCE] keyword.
C4_ReferenceBeforeParameters ==
    \A n \in 1..Len(session) :
        IsParameter(session[n]) =>
            \E r \in 1..(n - 1) :
                /\ IsReference(session[r])
                /\ Len(session[r].data) = session[n].src[1].num_ports

---------------------------------------------------------------------------
(* C5 *)

\* the line is the keyword [VERSION] with the version string 2.0
IsVersion20(line) ==
    /\ HasPrefix(line, Chars("[VERSION]"))
    /\ StrStrip(From(line, Len("[VERSION]") + 1)) = Chars("2.0")

\* C5: the first logical line decides file_version for the rest of the
\* parse: '#' gives version 1, the option line is parsed and the state is
\* DATA_LINES; '[' is accepted only as [VERSION] 2.0 and gives version 2 and
\* the state OPTION_LINE_EXPECTED; every other first line returns an error
\* and leaves file_version unset; file_version keeps this value in every
\* later state.
C5_FirstLineDecidesVersion ==
    Len(handed) >= 1 =>
        LET line == handed[1]
            o    == parse_option_line(InitMachine, line)
        IN  /\ line[1] = "#" => inc.file_version = 1
            /\ line[1] = "[" =>
                  inc.file_version = (IF IsVersion20(line) THEN 2 ELSE 0)
            /\ line[1] \notin {"#", "["} => inc.file_version = 0
            /\ (line[1] # "#" /\ ~IsVersion20(line)) => failed
            /\ Len(handed) = 1 =>
                /\ line[1] = "#" =>
                    /\ inc.state = "PS_DATA_LINES"
                    /\ inc.frequency_unit = o.inc.frequency_unit
                    /\ inc.number_format = o.inc.number_format
                    /\ inc.parameter_kind = o.inc.parameter_kind
                    /\ inc.reference_resistance = o.inc.reference_resistance
                    /\ failed <=> (o.ret # "SR_OK")
                /\ IsVersion20(line) =>
                    /\ inc.state = "PS_OPTION_LINE"
                    /\ ~failed

---------------------------------------------------------------------------
(* C6 *)

\* the step hands exactly one line to process_line
OneLineStep == Len(handed') = Len(handed) + 1

\* the line that a step hands to process_line
NewLine == handed'[Len(handed')]

\* a line that is neither an option line nor a keyword line
IsPlainLine(line) == line[1] \notin {"#", "["}

\* C6 as the specification states it: in version 2 every line other than
\* an option line in OPTION_LINE_EXPECTED, and every line other than a
\* keyword line in NUM_PORTS_EXPECTED, returns an error.
C6_AnyOtherLineIsError ==
    [][(OneLineStep /\ inc.file_version = 2) =>
          /\ (inc.state = "PS_OPTION_LINE" /\ NewLine[1] # "#") =>
                ret' = "SR_ERR"
          /\ (inc.state = "PS_NUM_PORTS" /\ NewLine[1] # "[") =>
                ret' = "SR_ERR"]_vars

\* what a line does in OPTION_LINE_EXPECTED and in NUM_PORTS_EXPECTED
HeaderStep ==
    (OneLineStep /\ inc.file_version = 2) =>
        /\ inc.state = "PS_OPTION_LINE" =>
              IF NewLine[1] = "#" THEN inc'.state = "PS_NUM_PORTS"
              ELSE ret' = "SR_ERR" /\ inc' = inc
        /\ inc.state = "PS_NUM_PORTS" =>
              IF NewLine[1] = "#" THEN ret' = "SR_OK" /\ inc' = inc
              ELSE IF NewLine[1] = "[" THEN inc'.state # "PS_NUM_PORTS"
              ELSE ret' = "SR_ERR" /\ inc' = inc

\* in a version 2 parse without error every line that is neither an option
\* line nor a keyword line comes after the option line and a keyword line
HeaderBeforeData ==
    (inc.file_version = 2 /\ ~failed) =>
        \A k \in 1..Len(handed) :
            IsPlainLine(handed[k]) =>
                /\ handed[2][1] = "#"
                /\ \E j \in 3..(k - 1) : handed[j][1] = "["

\* C6: in version 2 a line in OPTION_LINE_EXPECTED that is no option line
\* returns an error; in NUM_PORTS_EXPECTED a further '#' line is ignored
\* (SR_OK, context unchanged) and every other line that is no keyword line
\* returns an error; so no data line is accepted before the option line and
\* one keyword line.
C6_HeaderOrder == []HeaderBeforeData /\ [][HeaderStep]_vars

\* a second '#' line has been ignored in NUM_PORTS_EXPECTED
C6_Witness ==
    /\ inc.file_version = 2 /\ ~failed
    /\ Len(handed) >= 3
    /\ handed[3][1] = "#"
    /\ inc.state = "PS_NUM_PORTS"

---------------------------------------------------------------------------
(* C7 *)

\* C7: for matrix format UPPER or LOWER every element [i, j] of an emitted
\* block is the number format conversion of the input pair that the
\* triangle holds for [i, j] or [j, i].
C7_TriangleConverted ==
    ~failed =>
        \A nk \in SentPoints :
            LET pt  == session[nk[1]].src[nk[2]]
                blk == Block(session[nk[1]], nk[2])
                N   == pt.num_ports
            IN  (IsNetwork(session[nk[1]])
                    /\ pt.matrix_format \in {"MF_UPPER", "MF_LOWER"}) =>
                    \A i, j \in 0..(N - 1) :
                        PairAt(blk, i * N + j) =
                            Conv(pt.number_format,
                                 PairAt(Payload(pt),
                                        TriangleIndex(pt.matrix_format, N, i, j)))

---------------------------------------------------------------------------
(* C8 *)

\* C8: for matrix format LOWER or UPPER both components of element [i, j]
\* of every emitted block equal those of element [j, i].
C8_MirroredBlockSymmetric ==
    \A nk \in SentPoints :
        LET pt  == session[nk[1]].src[nk[2]]
            blk == Block(session[nk[1]], nk[2])
            N   == pt.num_ports
        IN  (IsNetwork(session[nk[1]])
                /\ pt.matrix_format \in {"MF_UPPER", "MF_LOWER"}) =>
                \A i, j \in 0..(N - 1) :
                    PairAt(blk, i * N + j) = PairAt(blk, j * N + i)

\* a block of three or more ports has been sent for a triangle
C8_Witness ==
    \E nk \in SentPoints :
        LET pt == session[nk[1]].src[nk[2]]
        IN  /\ IsNetwork(session[nk[1]])
            /\ pt.matrix_format \in {"MF_UPPER", "MF_LOWER"}
            /\ pt.num_ports >= 3
            /\ PairAt(Block(session[nk[1]], nk[2]), 1)
                  # PairAt(Block(session[nk[1]], nk[2]), 2)

---------------------------------------------------------------------------
(* C9 *)

\* place in the block of pair q of the input of a FULL matrix
FullPosition(pt, q) ==
    IF pt.num_ports = 2 /\ pt.two_port_data_order = "TP_ORDER_21_12"
       /\ q \in {1, 2}
    THEN 3 - q ELSE q

\* C9: in a parse without error every emitted block of a FULL matrix holds
\* 2*N*N doubles, and pair q of the input after the frequency, converted
\* once by the number format, is pair q of the block, but for N = 2 with the
\* order 21_12, where pairs 1 and 2 change places.
C9_FullBlockRowMajor ==
    ~failed =>
        \A nk \in SentPoints :
            LET pt  == session[nk[1]].src[nk[2]]
                blk == Block(session[nk[1]], nk[2])
                N   == pt.num_ports
            IN  (IsNetwork(session[nk[1]]) /\ pt.matrix_format = "MF_FULL") =>
                    /\ Len(blk) = 2 * N * N
                    /\ \A q \in 0..(N * N - 1) :
                          PairAt(blk, FullPosition(pt, q)) =
                              Conv(pt.number_format, PairAt(Payload(pt), q))

\* FULL blocks of three ports and of two ports have been sent
C9_Witness ==
    /\ ~failed
    /\ \E nk \in SentPoints :
          LET pt == session[nk[1]].src[nk[2]]
          IN  /\ IsNetwork(session[nk[1]])
              /\ pt.matrix_format = "MF_FULL"
              /\ pt.num_ports >= 3
              /\ pt.number_format = "FORMAT_REAL_IMAGINARY"

---------------------------------------------------------------------------
(* C10 *)

\* the handed lines that begin with the keyword [TWO-PORT ORDER]
IsOrderLine(line) == HasPrefix(line, Chars("[TWO-PORT ORDER]"))
OrderLines == SelectSeq(handed, IsOrderLine)

\* the block of a FULL matrix with every pair converted in its place
InOrder(pt) ==
    Tuple([x \in 1..(2 * pt.num_ports * pt.num_ports) |->
        Conv(pt.number_format,
             PairAt(Payload(pt), (x - 1) \div 2))[2 - (x % 2)]])

\* C10: in a parse without error a two-port block of a FULL matrix has the
\* pairs at positions 2,3 and 4,5 exchanged against the input order exactly
\* when the order is 21_12, which it is in version 1 and when no
\* [TWO-PORT ORDER] line was read, and has the input order after
\* [TWO-PORT ORDER] 12_21; blocks of other port counts and noise points
\* are in input order.
C10_TwoPortExchange ==
    ~failed =>
        /\ inc.file_version = 1 => inc.two_port_data_order = "TP_ORDER_21_12"
        /\ OrderLines = <<>> => inc.two_port_data_order = "TP_ORDER_21_12"
        /\ (OrderLines # <<>> /\ inc.file_version = 2) =>
              inc.two_port_data_order =
                  (IF StrStr(OrderLines[Len(OrderLines)], Chars("12_21")) > 0
                   THEN "TP_ORDER_12_21" ELSE "TP_ORDER_21_12")
        /\ \A nk \in SentPoints :
              LET p   == session[nk[1]]
                  pt  == p.src[nk[2]]
                  blk == Block(p, nk[2])
                  in  == InOrder(pt)
                  x   == pt.two_port_data_order = "TP_ORDER_21_12"
              IN  /\ pt.two_port_data_order = inc.two_port_data_order
                  /\ (IsNetwork(p) /\ pt.matrix_format = "MF_FULL"
                          /\ pt.num_ports = 2) =>
                        /\ SubSeq(blk, 1, 2) = SubSeq(in, 1, 2)
                        /\ SubSeq(blk, 3, 4) =
                              (IF x THEN SubSeq(in, 5, 6) ELSE SubSeq(in, 3, 4))
                        /\ SubSeq(blk, 5, 6) =
                              (IF x THEN SubSeq(in, 3, 4) ELSE SubSeq(in, 5, 6))
                        /\ SubSeq(blk, 7, 8) = SubSeq(in, 7, 8)
                  /\ (IsNetwork(p) /\ pt.matrix_format = "MF_FULL"
                          /\ pt.num_ports # 2) =>
                        blk = in
                  /\ IsNoise(p) =>
                        SubSeq(blk, 1, 4) =
                            <<confNF2F(Payload(pt)[1]), Payload(pt)[2],
                              Deg2Rad(Payload(pt)[3]), Payload(pt)[4]>>

\* two-port blocks have been sent after [TWO-PORT ORDER] 12_21, and noise
\* points after them
C10_Witness ==
    /\ ~failed
    /\ inc.two_port_data_order = "TP_ORDER_12_21"
    /\ \E nk \in SentPoints :
          /\ IsNetwork(session[nk[1]])
          /\ session[nk[1]].src[nk[2]].num_ports = 2
    /\ \E nk \in SentPoints : IsNoise(session[nk[1]])

---------------------------------------------------------------------------
(* C11 *)

\* the values of a stored data-set beyond its first num_vals_per_set ones
Excess(pt) == SubSeq(pt.set, pt.num_vals_per_set + 1, Len(pt.set))

\* C11: when the data-set of the sweep point stored last held more values
\* than num_vals_per_set, the values beyond the first num_vals_per_set are
\* the beginning of the data-set that is being accumulated now.
C11_ExcessKept ==
    (~failed /\ pts # <<>> /\ Excess(pts[Len(pts)]) # <<>>) =>
        /\ inc.data_set_count >= Len(Excess(pts[Len(pts)]))
        /\ LoadN(inc.data_set, 0, Len(Excess(pts[Len(pts)])))
              = Excess(pts[Len(pts)])

---------------------------------------------------------------------------
(* C12 *)

\* the port counts N with 2*N*N + 1 = L
PortCounts(L) == {N \in 0..L : 2 * N * N + 1 = L}

\* C12: on an accumulated data-set of L values calc_num_ports returns
\* SR_OK exactly when L = 2*N*N + 1 for some N, that is when (L - 1) / 2 is
\* a perfect square, and then num_ports is this N and num_vals_per_set is
\* L; otherwise it returns an error.  In a version 1 parse without error
\* the port count found this way goes with the length of the data-sets.
C12_InferenceIffSquare ==
    /\ \A L \in 0..MaxSetLen :
          LET m == calc_num_ports([Machine EXCEPT !.inc.data_set_count = L])
          IN  /\ (m.ret = "SR_OK") <=> (PortCounts(L) # {})
              /\ m.ret = "SR_OK" =>
                    /\ m.inc.num_ports \in PortCounts(L)
                    /\ m.inc.num_vals_per_set = L
    /\ (inc.file_version = 1 /\ inc.num_ports # 0 /\ ~failed
            /\ inc.state = "PS_DATA_LINES") =>
          inc.num_ports \in PortCounts(inc.num_vals_per_set)

\* the inference has found two or more ports in a version 1 parse
C12_Witness ==
    /\ inc.file_version = 1 /\ ~failed
    /\ inc.num_ports >= 2
    /\ inc.state = "PS_DATA_LINES"
    /\ \E i \in 1..Len(session) : IsReference(session[i])

---------------------------------------------------------------------------
(* C13 *)

\* the lines handed so far are the option line of a version 1 file and data
\* lines of one sweep point: no data line after the first one holds an odd
\* number of values, so none of them begins a second data-set
OnePointSoFar ==
    /\ Len(handed) >= 1
    /\ handed[1][1] = "#"
    /\ \A k \in 2..Len(handed) :
          /\ parse_data_line_numbers(handed[k]).ok
          /\ k > 2 => Len(parse_data_line_numbers(handed[k]).vals) % 2 = 0

\* C13: for a version 1 file that holds one sweep point no reference,
\* frequency or parameter packet is sent while the file is given to
\* receive(); after an end() without error the feed holds the reference
\* packet of N values, the frequency packet of one value and the parameter
\* packet of 2*N*N values, in this order, N being the port count inferred
\* from the 2*N*N + 1 values of the data-set.
C13_OnePointAtEnd ==
    (~failed /\ OnePointSoFar) =>
        /\ pc = "open" => DataPackets(session) = <<>>
        /\ (pc = "ended" /\ Len(handed) >= 2) =>
              LET d == DataPackets(session)
              IN  /\ Len(d) = 3
                  /\ IsReference(d[1])
                  /\ IsFrequency(d[2])
                  /\ IsParameter(d[3])
                  /\ Len(d[2].data) = 1
                  /\ Len(d[3].src) = 1
                  /\ Len(d[1].data) = d[3].src[1].num_ports
                  /\ d[3].src[1].num_ports \in PortCounts(Len(d[3].src[1].set))
                  /\ Len(d[3].data)
                        = 2 * d[3].src[1].num_ports * d[3].src[1].num_ports

\* end() has sent the packets of a sweep point given on two data lines
C13_Witness ==
    /\ pc = "ended" /\ ~failed
    /\ OnePointSoFar
    /\ Len(handed) >= 3
    /\ \E i \in 1..Len(session) : IsParameter(session[i])

---------------------------------------------------------------------------
(* C14 *)

\* the line is the keyword [NOISE DATA]
IsNoiseKeyword(line) == HasPrefix(line, Chars("[NOISE DATA]"))

\* NOISE_DATA has been entered without a [NOISE DATA] line
HeuristicNoise ==
    /\ inc.state = "PS_NOISE_DATA"
    /\ \A k \in 1..Len(handed) : ~IsNoiseKeyword(handed[k])

\* the place in the feed of the last network packet, 0 if none
LastNetworkPacket ==
    IF \E x \in 1..Len(session) : IsNetwork(session[x])
    THEN CHOOSE x \in 1..Len(session) :
            /\ IsNetwork(session[x])
            /\ \A y \in (x + 1)..Len(session) : ~IsNetwork(session[y])
    ELSE 0

\* the place in the feed of the first noise packet, 0 if none
FirstNoisePacket ==
    IF \E x \in 1..Len(session) : IsNoise(session[x])
    THEN CHOOSE x \in 1..Len(session) :
            /\ IsNoise(session[x])
            /\ \A y \in 1..(x - 1) : ~IsNoise(session[y])
    ELSE 0

\* the frequency, as read, of the last network point that was sent
LastNetworkFreq ==
    session[LastNetworkPacket].src[Len(session[LastNetworkPacket].src)].set[1]

\* the frequency, as read, of the first data-set taken as noise data
FirstNoiseFreq ==
    IF FirstNoisePacket # 0 THEN session[FirstNoisePacket].src[1].set[1]
    ELSE IF pts # <<>> THEN pts[1].set[1]
    ELSE Load(inc.data_set, 0)

\* C14: when a version 1 parse has gone from DATA_LINES to NOISE_DATA by
\* the frequency restart, the frequency of the first noise data-set is
\* strictly less than that of the last network point; a data-set with the
\* same frequency stays network data.
C14_StrictRestart ==
    (~failed /\ inc.file_version = 1 /\ HeuristicNoise
        /\ LastNetworkPacket # 0) =>
        ~Geq(FirstNoiseFreq, LastNetworkFreq)

---------------------------------------------------------------------------
(* C15 *)

\* a step that hands one line and enters NOISE_DATA starts in DATA_LINES,
\* and in a file that is not of version 1 the line is [NOISE DATA]
NoiseEntryStep ==
    (OneLineStep /\ inc.state # "PS_NOISE_DATA"
        /\ inc'.state = "PS_NOISE_DATA") =>
        /\ inc.state = "PS_DATA_LINES"
        /\ inc.file_version # 1 => IsNoiseKeyword(NewLine)

\* NOISE_DATA entered without a [NOISE DATA] line means version 1
NoiseByKeyword == HeuristicNoise => inc.file_version = 1

\* C15: the frequency restart changes the state only in version 1 and only
\* from DATA_LINES: in version 2 the state is NOISE_DATA only after a
\* [NOISE DATA] line, whatever the frequencies of the data-sets are.
C15_RestartOnlyVersion1 == []NoiseByKeyword /\ [][NoiseEntryStep]_vars

\* a version 2 parse holds two network points of decreasing frequency and
\* is still in DATA_LINES
C15_Witness ==
    /\ inc.file_version = 2 /\ ~failed
    /\ inc.state = "PS_DATA_LINES"
    /\ Len(pts) >= 2
    /\ ~Geq(pts[2].set[1], pts[1].set[1])

---------------------------------------------------------------------------
(* C16 *)

\* the sweep held by m has been sent as one network sweep on the way to r
NetworkSweepFlushed(m, r) ==
    /\ r.inc.sweep_count = 0 /\ r.pts = <<>>
    /\ IF m.inc.sweep_count = 0 THEN r.session = m.session
       ELSE /\ Len(r.session) = Len(m.session) + 2
            /\ SubSeq(r.session, 1, Len(m.session)) = m.session
            /\ IsFrequency(r.session[Len(r.session) - 1])
            /\ r.session[Len(r.session) - 1].data =
                   LoadN(m.inc.sweep_freq, 0, m.inc.sweep_count)
            /\ IsNetwork(r.session[Len(r.session)])
            /\ r.session[Len(r.session)].src = m.pts

\* r is what [NOISE DATA] makes of m, a parser in DATA_LINES
NoiseKeywordOutcome(m, r) ==
    IF m.inc.num_ports # 2
    THEN /\ r.ret = "SR_ERR"
         /\ r.inc = m.inc /\ r.pts = m.pts /\ r.session = m.session
    ELSE /\ r.ret = "SR_OK"
         /\ NetworkSweepFlushed(m, r)
         /\ r.inc.state = "PS_NOISE_DATA"
         /\ r.inc.num_vals_per_set = 5

\* in every state in DATA_LINES, the line [NOISE DATA] would have the outcome
NoiseKeywordNext ==
    inc.state = "PS_DATA_LINES" =>
        NoiseKeywordOutcome(Machine, process_line(Machine, Chars("[NOISE DATA]")))

\* every receive() that hands only a [NOISE DATA] line in DATA_LINES has it
NoiseKeywordStep ==
    (OneLineStep /\ pc' = "open" /\ inc.state = "PS_DATA_LINES"
        /\ IsNoiseKeyword(NewLine)) =>
        NoiseKeywordOutcome(Machine, Machine')

\* C16: [NOISE DATA] in DATA_LINES with a port count other than 2 returns
\* SR_ERR and changes neither the context (state, sweep store) nor the feed;
\* with 2 ports it sends the network sweep held so far, then the state is
\* NOISE_DATA and num_vals_per_set is 5.
C16_NoiseKeyword == []NoiseKeywordNext /\ [][NoiseKeywordStep]_vars

\* [NOISE DATA] has just flushed a two-port network sweep
C16_Witness ==
    /\ ~failed /\ handed # <<>> /\ IsNoiseKeyword(handed[Len(handed)])
    /\ inc.state = "PS_NOISE_DATA" /\ inc.num_vals_per_set = 5
    /\ inc.num_ports = 2
    /\ session # <<>> /\ IsNetwork(session[Len(session)])

---------------------------------------------------------------------------
(* C17 *)

RECURSIVE Replay(_, _)
\* the parser after process_line has been given lines one after the other,
\* whatever each call returned
Replay(m, lines) ==
    IF lines = <<>> THEN m
    ELSE Replay(process_line(m, Head(lines)), Tail(lines))

\* the state in which the k-th handed line was processed
StateAt(k) == Replay(InitMachine, SubSeq(handed, 1, k - 1)).inc.state

IsMixedModeKeyword(line) == HasPrefix(line, Chars("[MIXED-MODE ORDER]"))

\* a [MIXED-MODE ORDER] line has been processed by parse_key_line
MixedModeInKeywords ==
    \E k \in 1..Len(handed) :
        /\ IsMixedModeKeyword(handed[k])
        /\ StateAt(k) \in {"PS_NUM_PORTS", "PS_KEYWORDS"}

NoSweepPacket(feed) ==
    \A i \in 1..Len(feed) : ~IsFrequency(feed[i]) /\ ~IsParameter(feed[i])

\* C17: once a [MIXED-MODE ORDER] line of the keyword section has been
\* processed, a call has returned an error and the feed holds no frequency
\* and no parameter packet, up to the end of the input.
C17_MixedModeNoSweep ==
    MixedModeInKeywords => (failed /\ NoSweepPacket(session))

---------------------------------------------------------------------------
(* C18 *)

IsSweepPacket(p) == IsFrequency(p) \/ IsParameter(p)

\* the frequency and parameter packets of a feed, in order
SweepPackets(feed) == SelectSeq(feed, IsSweepPacket)

\* a call made after a call has returned an error sends no sweep packet
QuietAfterError == failed => SweepPackets(session') = SweepPackets(session)

\* C18: after a receive() that returned an error no later receive() or
\* end() on the same parser sends a frequency or a parameter packet.
C18_NoSweepAfterError == [][QuietAfterError]_vars

---------------------------------------------------------------------------
(* C19 *)

\* the return code of the process_buffer call that end() makes in this state
EndBufferCode == process_buffer(Machine, TRUE).ret

\* an end() whose process_buffer fails returns that code and sends no
\* reference, frequency or parameter packet
EndKeepsError ==
    (pc = "open" /\ pc' = "ended" /\ sdi_ready /\ EndBufferCode # "SR_OK") =>
        /\ ret' = EndBufferCode
        /\ DataPackets(session') = DataPackets(session)

\* C19: when the processing of the buffered lines fails inside end(), end()
\* returns that error, no later step of end() replaces it, and end() sends
\* no reference, frequency or parameter packet.
C19_EndKeepsError == [][EndKeepsError]_vars

---------------------------------------------------------------------------
(* C20 *)

\* x is a number greater than zero
IsPositive(x) == IsNum(x) /\ ~Geq(Zero, x)

\* C20: when no call has returned an error, every value of every frequency
\* packet of the feed is strictly positive.
C20_PositiveFrequencies ==
    ~failed =>
        \A i \in 1..Len(session) :
            IsFrequency(session[i]) =>
                \A k \in 1..Len(session[i].data) :
                    IsPositive(session[i].data[k])

---------------------------------------------------------------------------
(* C21 *)

\* the cells of reference_resistances that hold a value
FilledReferences ==
    {i \in 0..(Len(inc.reference_resistances.mem) - 1) :
        IsNum(Load(inc.reference_resistances, i))}

\* C21: whenever reference_resistances is allocated, its length is the
\* current num_ports and every filled entry is greater than zero.
C21_ReferenceVector ==
    ~inc.reference_resistances.null =>
        /\ inc.reference_resistances.cap = inc.num_ports
        /\ \A i \in FilledReferences :
              IsPositive(Load(inc.reference_resistances, i))

---------------------------------------------------------------------------
(* C22 *)

\* the port count with which the k-th handed line was processed
PortsAt(k) == Replay(InitMachine, SubSeq(handed, 1, k - 1)).inc.num_ports

\* the k-th handed line is a [REFERENCE] line of the keyword section
IsReferenceKeywordAt(k) ==
    /\ fwd_to(handed[k], "[REFERENCE]").match
    /\ StateAt(k) \in {"PS_NUM_PORTS", "PS_KEYWORDS"}

RECURSIVE NumbersFrom(_)
\* the numbers of the handed lines from the k-th on, up to the first line
\* that is not made of numbers
NumbersFrom(k) ==
    IF k > Len(handed) \/ ~parse_data_line_numbers(handed[k]).ok THEN <<>>
    ELSE parse_data_line_numbers(handed[k]).vals \o NumbersFrom(k + 1)

\* the numbers that follow the [REFERENCE] keyword of the k-th handed line
SuppliedReferences(k) ==
    parse_data_line_numbers(fwd_to(handed[k], "[REFERENCE]").ptr).vals
        \o NumbersFrom(k + 1)

RECURSIVE Ones(_)
Ones(n) == IF n = 0 THEN <<>> ELSE Append(Ones(n - 1), One)

\* the reference vector that the [REFERENCE] keyword of line k supplies
SuppliedVector(k) == SubSeq(SuppliedReferences(k), 1, PortsAt(k))

RECURSIVE SuppliedVectorsFrom(_)
\* the vectors of the completed [REFERENCE] keywords from line k on; the
\* keyword is refused while the port count is 0
SuppliedVectorsFrom(k) ==
    IF k > Len(handed) THEN <<>>
    ELSE (IF IsReferenceKeywordAt(k) /\ PortsAt(k) > 0
             /\ Len(SuppliedReferences(k)) >= PortsAt(k)
          THEN <<SuppliedVector(k)>> ELSE <<>>)
         \o SuppliedVectorsFrom(k + 1)

\* the data of the reference packets of the feed, in order
ReferenceVectors ==
    LET refs == SelectSeq(session, IsReference)
    IN  [i \in 1..Len(refs) |-> refs[i].data]

\* the original statement: in an error-free version 2 parse the reference
\* packets hold the values supplied by the [REFERENCE] keywords, for every
\* parameter kind
C22_ReferenceAsSupplied ==
    (inc.file_version = 2 /\ ~failed) =>
        ReferenceVectors = SuppliedVectorsFrom(1)

\* what send_reference_information makes of a supplied vector
SentVector(v) == IF inc.parameter_kind = "S" THEN v ELSE Ones(Len(v))

\* C22: in an error-free version 2 parse with parameter kind S, each
\* [REFERENCE] keyword that supplies N values r1..rN after
\* [NUMBER OF PORTS] N gives one reference packet equal to [r1..rN],
\* whatever the R value of the option line is; with another parameter kind
\* the packet holds N times 1.0.
C22_ReferenceFromKeyword ==
    (inc.file_version = 2 /\ ~failed) =>
        /\ Len(ReferenceVectors) = Len(SuppliedVectorsFrom(1))
        /\ \A i \in 1..Len(ReferenceVectors) :
              ReferenceVectors[i] = SentVector(SuppliedVectorsFrom(1)[i])

\* a reference packet of kind S holds a value that is not the R value
C22_Witness ==
    /\ inc.file_version = 2 /\ ~failed /\ inc.parameter_kind = "S"
    /\ Len(ReferenceVectors) = 1
    /\ ReferenceVectors = SuppliedVectorsFrom(1)
    /\ \E i \in 1..Len(ReferenceVectors[1]) :
          ReferenceVectors[1][i] # inc.reference_resistance

---------------------------------------------------------------------------
(* C23 *)

\* version 2, kind other than S: each reference packet holds 1.0 for each
\* port of the [REFERENCE] keyword it answers
ReferencesNormalised ==
    (inc.file_version = 2 /\ inc.parameter_kind # "S") =>
        /\ Len(ReferenceVectors) = Len(SuppliedVectorsFrom(1))
        /\ \A i \in 1..Len(ReferenceVectors) :
              ReferenceVectors[i] = Ones(Len(SuppliedVectorsFrom(1)[i]))

\* version 2, kind S: a reference value is 1.0 only where 1.0 was supplied
ReferencesKeptVersion2 ==
    (inc.file_version = 2 /\ inc.parameter_kind = "S") =>
        /\ Len(ReferenceVectors) = Len(SuppliedVectorsFrom(1))
        /\ \A i \in 1..Len(ReferenceVectors) :
              /\ Len(ReferenceVectors[i]) = Len(SuppliedVectorsFrom(1)[i])
              /\ \A j \in 1..Len(ReferenceVectors[i]) :
                    ReferenceVectors[i][j] = One =>
                        SuppliedVectorsFrom(1)[i][j] = One

\* version 1: every reference value is the reference resistance of the
\* option line, for every parameter kind
ReferencesKeptVersion1 ==
    inc.file_version = 1 =>
        \A i \in 1..Len(ReferenceVectors) :
            /\ Len(ReferenceVectors[i]) = inc.num_ports
            /\ \A j \in 1..Len(ReferenceVectors[i]) :
                  ReferenceVectors[i][j] = inc.reference_resistance

\* C23: in version 2 with a kind other than S every reference packet holds
\* 1.0 for each of the N ports; in version 1 and in version 2 with kind S
\* no reference value is replaced by 1.0.
C23_UnitReferences ==
    ReferencesNormalised /\ ReferencesKeptVersion2 /\ ReferencesKeptVersion1

\* a version 2 file of kind Z has supplied values other than 1.0 and its
\* reference packet is sent
C23_Witness ==
    /\ inc.file_version = 2 /\ ~failed /\ inc.parameter_kind = "Z"
    /\ Len(ReferenceVectors) = 1
    /\ SuppliedVectorsFrom(1) # <<>>
    /\ SuppliedVectorsFrom(1)[1] # Ones(Len(SuppliedVectorsFrom(1)[1]))

---------------------------------------------------------------------------
(* C24 *)

\* an [END] line has been processed in DATA_LINES or NOISE_DATA
EndSeen ==
    \E k \in 1..Len(handed) :
        /\ fwd_to(handed[k], "[END]").match
        /\ StateAt(k) \in {"PS_DATA_LINES", "PS_NOISE_DATA"}

\* a call made after [END] stores no sweep point and sends no sweep packet
QuietAfterEnd ==
    (EndSeen /\ ~failed') =>
        /\ inc'.sweep_count = inc.sweep_count
        /\ SweepPackets(session') = SweepPackets(session)

\* C24: [END] in DATA_LINES or NOISE_DATA is terminal: the lines that
\* follow it add no sweep point, and neither they nor end() send a further
\* frequency or parameter packet.
C24_EndIsTerminal == [][QuietAfterEnd]_vars

---------------------------------------------------------------------------
(* C25 *)

\* lines with the keywords that need the port count
PortKeywordLines ==
    {Chars("[REFERENCE] 50"), Chars("[REFERENCE]"),
     Chars("[MATRIX FORMAT] LOWER"), Chars("[MATRIX FORMAT] FULL"),
     Chars("[NETWORK DATA]")}

IsPortKeyword(line) ==
    \/ fwd_to(line, "[REFERENCE]").match
    \/ fwd_to(line, "[MATRIX FORMAT]").match
    \/ fwd_to(line, "[NETWORK DATA]").match

\* in every state with num_ports = 0, parse_key_line would return SR_ERR for
\* each of these lines and change nothing of the context and of the feed
PortKeywordNext ==
    inc.num_ports = 0 =>
        \A line \in PortKeywordLines :
            /\ parse_key_line(Machine, line).ret = "SR_ERR"
            /\ parse_key_line(Machine, line).inc = inc
            /\ parse_key_line(Machine, line).session = session

\* every receive() that hands only such a line in the keyword section with
\* num_ports = 0 returns SR_ERR; the context is the one parse_key_line was
\* called with: as it was in KEYWORDS, and with the state KEYWORDS that
\* process_line sets before the call in NUM_PORTS
PortKeywordStep ==
    (OneLineStep /\ pc' = "open" /\ inc.num_ports = 0
        /\ inc.state \in {"PS_NUM_PORTS", "PS_KEYWORDS"}
        /\ IsPortKeyword(NewLine)) =>
        /\ ret' = "SR_ERR"
        /\ inc' = [inc EXCEPT !.state = "PS_KEYWORDS"]
        /\ session' = session

---------------------------------------------------------------------------
(* C26 *)

\* the tokens of an option line after the '#'
OptionTokens(line) == SelectSeq(StrSplit(Tail(line), SPC), NonEmpty)

UnitTokens == {Chars("HZ"), Chars("KHZ"), Chars("MHZ"), Chars("GHZ")}
FormatTokens == {Chars("DB"), Chars("MA"), Chars("RI")}
KindTokens == {Chars("S"), Chars("Y"), Chars("Z"), Chars("G"), Chars("H")}

\* the i-th token is one that the option line may hold
IsKnownToken(toks, i) ==
    \/ toks[i] \in UnitTokens \cup FormatTokens \cup KindTokens
    \/ toks[i] = Chars("R") /\ i < Len(toks) /\ sr_atod(toks[i + 1]).ok
    \/ i > 1 /\ toks[i - 1] = Chars("R") /\ sr_atod(toks[i]).ok

HasUnknownToken(line) ==
    \E i \in 1..Len(OptionTokens(line)) : ~IsKnownToken(OptionTokens(line), i)

HasToken(line, set) ==
    \E i \in 1..Len(OptionTokens(line)) : OptionTokens(line)[i] \in set

\* the option line has been processed as the k-th handed line
IsOptionLineAt(k) ==
    /\ k <= Len(handed) /\ handed[k][1] = "#"
    /\ StateAt(k) \in {"PS_START_FILE", "PS_OPTION_LINE"}

\* C26: an option line with a token that is none of HZ/KHZ/MHZ/GHZ,
\* DB/MA/RI, S/Y/Z/G/H or R <value> makes a call return an error; after an
\* option line without error a field holds its default (GHz, MA, S, 50)
\* when its token is absent.
C26_UnknownOptionToken ==
    \A k \in 1..Len(handed) :
        IsOptionLineAt(k) =>
            /\ HasUnknownToken(handed[k]) => failed
            /\ (~failed /\ k = Len(handed)) =>
                  /\ ~HasToken(handed[k], UnitTokens) =>
                        inc.frequency_unit = Norm(1, 9)
                  /\ ~HasToken(handed[k], FormatTokens) =>
                        inc.number_format = "FORMAT_MAGNITUDE_ANGLE"
                  /\ ~HasToken(handed[k], KindTokens) =>
                        inc.parameter_kind = "S"
                  /\ ~HasToken(handed[k], {Chars("R")}) =>
                        inc.reference_resistance = Norm(50, 0)

---------------------------------------------------------------------------
(* C27 *)

\* the positions of the markers of one type in the feed
MarkersAt(type) == {i \in 1..Len(session) : session[i].type = type}

\* C27: in every call sequence receive*, end, also end without any
\* receive, the feed holds at most one frame-begin, which is before every
\* reference, frequency and parameter packet, and after end() it holds
\* exactly one frame-end, with the frame-begin before it.
C27_FrameMarkers ==
    /\ Cardinality(MarkersAt("SR_DF_FRAME_BEGIN")) <= 1
    /\ \A i \in 1..Len(session) :
          IsAnalog(session[i]) =>
              \E j \in MarkersAt("SR_DF_FRAME_BEGIN") : j < i
    /\ pc = "ended" =>
          /\ Cardinality(MarkersAt("SR_DF_FRAME_END")) = 1
          /\ \A i \in MarkersAt("SR_DF_FRAME_END") :
                \E j \in MarkersAt("SR_DF_FRAME_BEGIN") : j < i

---------------------------------------------------------------------------
(* C28 *)

\* C28: after reset the parser is as after init (state START_FILE, no sweep
\* point and no partial data-set held), and the file given again to
\* receive() and end() yields the packets and the error status that a
\* freshly initialised parser yields for it.
C28_ResetRearms ==
    /\ pc = "rearmed" =>
          /\ inc.state = "PS_START_FILE"
          /\ inc.sweep_count = 0
          /\ inc.data_set_count = 0
    /\ pc = "reended" =>
          /\ session = OneChunk.session
          /\ failed = (OneChunk.ret # "SR_OK")

---------------------------------------------------------------------------
(* C29 *)

\* the file name is present and ends in .sNp, N in 1..8
EndsInSnp(md) ==
    /\ md.has_fn /\ Len(md.fn) >= 4
    /\ md.fn[Len(md.fn) - 3] = "."
    /\ md.fn[Len(md.fn) - 2] = "s"
    /\ md.fn[Len(md.fn) - 1] \in {"1", "2", "3", "4", "5", "6", "7", "8"}
    /\ md.fn[Len(md.fn)] = "p"

\* C29: format_match returns SR_OK with confidence 10 if and only if the
\* file name ends in .sNp for an N in 1..8; otherwise it returns SR_ERR,
\* whatever the header is.
C29_MatchBySuffix ==
    pc = "matched" =>
        /\ (match_ret = "SR_OK" /\ confidence = 10) <=> EndsInSnp(metadata)
        /\ ~EndsInSnp(metadata) => match_ret = "SR_ERR"
        /\ match_ret \in {"SR_OK", "SR_ERR"}

\* a file name that ends in .s8p has been matched, with a header that is no
\* Touchstone text
C29_Witness ==
    /\ pc = "matched" /\ match_ret = "SR_OK" /\ confidence = 10
    /\ HasSuffix(metadata.fn, Chars(".s8p"))
    /\ metadata.has_buf /\ metadata.buf = Chars("PK")

---------------------------------------------------------------------------
(* C30: a data row split over several lines *)

\* the bytes of a number as the files of the model write it
IsNumberByte(c) == IsDigit(c) \/ c \in {".", "-"}

\* the pieces of a line between blanks, the empty ones dropped
Tokens(line) == SelectSeq(StrSplit(line, SPC), LAMBDA t : t # <<>>)

\* a line that holds numbers only, at least two of them
IsNumberLine(line) ==
    /\ Len(Tokens(line)) >= 2
    /\ \A k \in 1..Len(line) : line[k] = SPC \/ IsNumberByte(line[k])

\* first and last index of the line of s that holds index i
LineStart(s, i) ==
    LET nls == {k \in 1..(i - 1) : s[k] = NL}
    IN  IF nls = {} THEN 1 ELSE 1 + CHOOSE k \in nls : \A j \in nls : k >= j

LineEnd(s, i) ==
    LET nls == {k \in (i + 1)..Len(s) : s[k] = NL}
    IN  IF nls = {} THEN Len(s) ELSE (CHOOSE k \in nls : \A j \in nls : k <= j) - 1

\* the lines before index first hold no keyword, or they hold the keyword
\* that opens the network data
InDataSection(s, first) ==
    LET head == SubSeq(s, 1, first - 1)
    IN  \/ StrStr(head, <<"[">>) = 0
        \/ StrStr(head, Chars("[NETWORK DATA]")) # 0

\* the number of values of one row: the largest num_vals_per_set with which
\* a sweep point of the feed was sent, 0 when there is none
RowValues ==
    LET ns == {session[k].src[1].num_vals_per_set :
                  k \in {j \in 1..Len(session) : IsParameter(session[j])}}
    IN  IF ns = {} THEN 0 ELSE CHOOSE n \in ns : \A o \in ns : n >= o

\* the token boundaries inside the data rows of the stream: a single blank
\* between two values of a line of numbers that holds no more than one row
RowSplits ==
    LET s == normalize(stream)
    IN  {i \in 2..(Len(s) - 1) :
            /\ s[i] = SPC /\ ~IsSpace(s[i - 1]) /\ ~IsSpace(s[i + 1])
            /\ IsNumberLine(SubSeq(s, LineStart(s, i), LineEnd(s, i)))
            /\ Len(Tokens(SubSeq(s, LineStart(s, i), LineEnd(s, i)))) <= RowValues
            /\ InDataSection(s, LineStart(s, i))}

\* the boundaries that leave an even number of values behind them on the line
EvenSplits ==
    LET s == normalize(stream)
    IN  {i \in RowSplits : Len(Tokens(SubSeq(s, i + 1, LineEnd(s, i)))) % 2 = 0}

\* the stream with a newline in place of the blank at every index of at
SplitAt(at) ==
    Tuple([k \in 1..Len(stream) |-> IF k \in at THEN NL ELSE stream[k]])

\* the boundary of from that follows i, if there is one
NextIn(from, i) ==
    {j \in from : j > i /\ \A k \in from : k > i => j <= k}

\* the sets of boundaries at which the file is split: every single boundary
\* of from, and every boundary together with the one that follows it
SplitSets(from) ==
    {{i} : i \in from} \cup {{i} \cup NextIn(from, i) : i \in from}

\* what the module sends and whether it succeeds when r is the result of
\* receive() for a whole file and e the result of end() after it
FeedResult(r, e) ==
    [session |-> e.session, ok |-> r.ret = "SR_OK" /\ e.ret = "SR_OK"]

FeedAfter(r) == FeedResult(r, end(r))

\* the split file read in one call
SplitFeed(at) == FeedAfter(receive(InitMachine, SplitAt(at)))

\* the split file is read without error and gives the packets of the file
\* that was read
SameAsRead(at) ==
    LET f == SplitFeed(at) IN f.ok /\ f.session = session

\* C30 as stated: after a file has been read without error, the same file
\* with the rows split at any token boundaries gives the same packets, in
\* both file versions.
C30_SplitAnywhere ==
    (pc = "ended" /\ ~failed) =>
        \A at \in SplitSets(RowSplits) : SameAsRead(at)

\* the boundaries at which a split keeps the packets: all of them in a
\* version 2 file, in a version 1 file those that leave an even number of
\* values on the new line
KeptSplits == IF inc.file_version = 2 THEN RowSplits ELSE EvenSplits

\* C30: after a file has been read without error, the same file with rows
\* split at token boundaries gives the same packets: at any boundary in a
\* version 2 file, in a version 1 file at the boundaries that put an even
\* number of values on the new line.
C30_SplitRows ==
    (pc = "ended" /\ ~failed) =>
        \A at \in SplitSets(KeptSplits) : SameAsRead(at)

\* a version 1 file read without error, with sweep points, that has rows
\* with boundaries of both kinds
C30_Witness ==
    /\ pc = "ended" /\ ~failed /\ inc.file_version = 1
    /\ SweepPackets(session) # <<>>
    /\ EvenSplits # {} /\ RowSplits \ EvenSplits # {}
    /\ \E at \in SplitSets(EvenSplits) : SameAsRead(at)

---------------------------------------------------------------------------
(* C31: reference values over several lines *)

\* the parser before the last handed line was processed
BeforeLast == Replay(InitMachine, SubSeq(handed, 1, Len(handed) - 1))

\* the parser after process_line has been given line in the state b
AfterLine(b, line) == process_line(b, line)

\* the last handed line is given to parse_references: as the rest of a
\* [REFERENCE] line of the keyword section with a known port count, or as a
\* line of the PS_REFERENCES state that is no further option line
IsReferenceStep(b, line) ==
    \/ /\ fwd_to(line, "[REFERENCE]").match
       /\ b.inc.state \in {"PS_NUM_PORTS", "PS_KEYWORDS"}
       /\ b.inc.num_ports > 0
    \/ /\ b.inc.state = "PS_REFERENCES"
       /\ line[1] # "#"

\* the text that parse_references is given
ReferenceText(b, line) ==
    IF b.inc.state = "PS_REFERENCES" THEN line
    ELSE fwd_to(line, "[REFERENCE]").ptr

\* the reference values read before the line
ReferencesBefore(b) ==
    IF b.inc.state = "PS_REFERENCES"
    THEN LoadN(b.inc.reference_resistances, 0, b.inc.num_references_found)
    ELSE <<>>

\* the reference values read when the numbers nums have followed the values
\* had: no more than n in all, in input order
ReferencesWith(had, nums, n) ==
    had \o SubSeq(nums, 1, IF Len(nums) <= n - Len(had) THEN Len(nums)
                           ELSE n - Len(had))

\* the step of parse_references from b to a over a line of numbers, the
\* values got read so far, data the content of the packet that is due
ReferenceStepFor(b, a, got, data) ==
    /\ a.inc.num_references_found = Len(got)
    /\ Len(got) < b.inc.num_ports =>
          /\ a.inc.state = "PS_REFERENCES"
          /\ a.session = b.session
          /\ LoadN(a.inc.reference_resistances, 0, Len(got)) = got
    /\ Len(got) = b.inc.num_ports =>
          /\ a.inc.state = "PS_KEYWORDS"
          /\ Len(a.session) = Len(b.session) + 1
          /\ SubSeq(a.session, 1, Len(b.session)) = b.session
          /\ IsReference(a.session[Len(a.session)])
          /\ a.session[Len(a.session)].data = data

\* the values read when line has been given to parse_references in b
ReferencesAfter(b, line) ==
    ReferencesWith(ReferencesBefore(b),
                   parse_data_line_numbers(ReferenceText(b, line)).vals,
                   b.inc.num_ports)

\* the last handed line is a line of numbers given to parse_references
\* that returns SR_OK
ReferenceLineLast(b) ==
    /\ handed # <<>>
    /\ \E k \in 1..Len(handed) : fwd_to(handed[k], "[REFERENCE]").match
    /\ IsReferenceStep(b, handed[Len(handed)])
    /\ parse_data_line_numbers(ReferenceText(b, handed[Len(handed)])).ok
    /\ AfterLine(b, handed[Len(handed)]).ret = "SR_OK"

\* C31 as stated: the packet holds the values in input order, for every
\* parameter kind.
C31_ReferencesAsGiven ==
    ReferenceLineLast(BeforeLast) =>
        ReferenceStepFor(BeforeLast,
                         AfterLine(BeforeLast, handed[Len(handed)]),
                         ReferencesAfter(BeforeLast, handed[Len(handed)]),
                         ReferencesAfter(BeforeLast, handed[Len(handed)]))

\* C31: each line of numbers given to parse_references adds its values in
\* input order to those read before; while fewer than num_ports values are
\* read the parser stays in PS_REFERENCES and sends nothing; with the
\* num_ports-th value it returns to PS_KEYWORDS and sends exactly one
\* reference packet, which holds the values in input order for parameter
\* kind S and 1.0 for each port for the other kinds, on whichever lines the
\* values stood.
C31_ReferencesWrapped ==
    ReferenceLineLast(BeforeLast) =>
        ReferenceStepFor(BeforeLast,
                         AfterLine(BeforeLast, handed[Len(handed)]),
                         ReferencesAfter(BeforeLast, handed[Len(handed)]),
                         SentVector(ReferencesAfter(BeforeLast,
                                                    handed[Len(handed)])))

\* the last of the values, on the second line after the keyword, has just
\* completed a vector of kind S that was sent as given
C31_Witness ==
    /\ ReferenceLineLast(BeforeLast)
    /\ BeforeLast.inc.state = "PS_REFERENCES"
    /\ BeforeLast.inc.num_references_found > 0
    /\ inc.state = "PS_KEYWORDS" /\ inc.parameter_kind = "S"
    /\ ReferenceVectors = <<LoadN(inc.reference_resistances, 0, inc.num_ports)>>
    /\ StateAt(Len(handed) - 1) = "PS_REFERENCES"

---------------------------------------------------------------------------
(* C32: the order of the tokens of the option line *)

RECURSIVE OptionUnits(_)
\* the tokens of an option line, R and its value taken as one
OptionUnits(toks) ==
    IF toks = <<>> THEN <<>>
    ELSE IF toks[1] = <<"R">> /\ Len(toks) >= 2
    THEN <<toks[1] \o <<SPC>> \o toks[2]>> \o OptionUnits(SubSeq(toks, 3, Len(toks)))
    ELSE <<toks[1]>> \o OptionUnits(Tail(toks))

\* the sequence s without its i-th element
Without(s, i) == SubSeq(s, 1, i - 1) \o SubSeq(s, i + 1, Len(s))

RECURSIVE Orders(_)
\* every order of the elements of s
Orders(s) ==
    IF s = <<>> THEN {<<>>}
    ELSE UNION {{<<s[i]>> \o o : o \in Orders(Without(s, i))} : i \in 1..Len(s)}

RECURSIVE OptionLineOf(_)
\* the option line with the tokens units: "#", then a blank and a token in
\* turn
OptionLineOf(units) ==
    IF units = <<>> THEN <<"#">>
    ELSE OptionLineOf(SubSeq(units, 1, Len(units) - 1))
            \o <<SPC>> \o units[Len(units)]

\* the option lines that hold the tokens of line in another order
Reordered(line) ==
    {OptionLineOf(o) : o \in Orders(OptionUnits(Tokens(Tail(line))))}

\* what parse_option_line returns and sets
OptionResult(m) ==
    [ret |-> m.ret,
     frequency_unit |-> m.inc.frequency_unit,
     number_format |-> m.inc.number_format,
     parameter_kind |-> m.inc.parameter_kind,
     reference_resistance |-> m.inc.reference_resistance]

\* the last handed line is an option line given to parse_option_line
OptionLineLast(b) ==
    /\ handed # <<>>
    /\ handed[Len(handed)][1] = "#"
    /\ b.inc.state \in {"PS_START_FILE", "PS_OPTION_LINE"}

\* C32: the result of parse_option_line (return code, frequency_unit,
\* number_format, parameter_kind, reference_resistance) is the same for
\* every order of the tokens of an option line that was parsed, R and its
\* value kept together.
C32_OptionOrder ==
    OptionLineLast(BeforeLast) =>
        \A l \in Reordered(handed[Len(handed)]) :
            OptionResult(parse_option_line(BeforeLast, l))
                = OptionResult(parse_option_line(BeforeLast, handed[Len(handed)]))

---------------------------------------------------------------------------
(* C33 *)

\* the four doubles that follow the frequency of noise point k (from 1) in
\* the data of noise packet p
NoiseStored(p, k) == SubSeq(p.data, 5 * (k - 1) + 1, 5 * (k - 1) + 4)

\* the four doubles of an input row after the noise conversions: the minimum
\* noise figure from dB to linear, the magnitude as read, the angle from
\* degrees to radians, the noise resistance as read
NoiseConverted(row) ==
    <<Pow10Div10(row[2]), row[3], Deg2Rad(row[4]), row[5]>>

\* C33: every point of every emitted noise packet holds, after the
\* frequency, the minimum noise figure as 10^(x/10), the magnitude of the
\* reflection coefficient unchanged, its angle in radians and the noise
\* resistance unchanged, in the order of the input row: nothing is exchanged
\* or mirrored
C33_NoiseConversion ==
    \A n \in 1..Len(session) :
        IsNoise(session[n]) =>
            \A k \in 1..Len(session[n].src) :
                NoiseStored(session[n], k)
                    = NoiseConverted(session[n].src[k].set)

\* a noise packet of a two-port file whose data order would exchange the
\* second and third parameter of a network point, holding a noise point whose
\* four values all differ
C33_Witness ==
    \E n \in 1..Len(session) :
        /\ IsNoise(session[n])
        /\ \E k \in 1..Len(session[n].src) :
              LET r == session[n].src[k]
              IN  /\ r.num_ports = 2
                  /\ r.two_port_data_order = "TP_ORDER_21_12"
                  /\ Len(r.set) = 5
                  /\ Cardinality({r.set[i] : i \in 2..5}) = 4

---------------------------------------------------------------------------
(* C34: data rows of any length *)

\* most data rows given to one parser
MaxRows == 3

\* the numbers of values of the data rows
RowLengths == {1, 3, 9, 512, 514, 1025}

\* the first values of the data rows
RowFirsts == {"1", "2"}

\* the lines before the first data row
RowHeaders ==
    {<<Chars("# HZ S MA")>>,
     <<Chars("[VERSION] 2.0"), Chars("# HZ S MA"),
       Chars("[NUMBER OF PORTS] 2"), Chars("[NETWORK DATA]")>>}

\* the text of a data row of n values, the first one f, the others 1
RowLine(f, n) ==
    Tuple([i \in 1..(2 * n - 1) |->
              IF i = 1 THEN f ELSE IF i % 2 = 0 THEN SPC ELSE "1"])

\* what parse_data_line_numbers returns for RowLine(f, n)
RowNumbers(f, n) ==
    [ok |-> TRUE,
     vals |-> Tuple([i \in 1..n |-> IF i = 1 THEN sr_atod(<<f>>).val
                                    ELSE sr_atod(<<"1">>).val])]

\* process_line on RowLine(f, n) in the states PS_DATA_LINES and
\* PS_NOISE_DATA: the line is given to parse_data_line
process_row(m, f, n) ==
    parse_data_values([m EXCEPT !.handed = Append(@, RowLine(f, n))],
                      RowNumbers(f, n))

\* the number of data rows that the parser has been given
RowsGiven == Cardinality({k \in 1..Len(handed) : handed[k][1] \in RowFirsts})

InitRows ==
    /\ stream = <<>>
    /\ junk \in JunkValues
    /\ pos = 0
    /\ \E h \in RowHeaders :
          LET m == Replay(InitMachine, h)
          IN  /\ in_buf = m.buf
              /\ sdi_ready = m.sdi_ready
              /\ inc = m.inc
              /\ session = m.session
              /\ pts = m.pts
              /\ handed = m.handed
              /\ ret = m.ret
    /\ failed = FALSE
    /\ pc = "rows"
    /\ metadata = NoMetadata
    /\ confidence = 0
    /\ match_ret = "NONE"

\* the parser is given one more data row
DataRow(f, n) ==
    /\ pc = "rows"
    /\ ~failed
    /\ inc.state \in {"PS_DATA_LINES", "PS_NOISE_DATA"}
    /\ RowsGiven < MaxRows
    /\ Becomes(process_row(Machine, f, n))
    /\ UNCHANGED <<stream, pos, junk, pc>>
    /\ UNCHANGED matchvars

NextRows == \E f \in RowFirsts, n \in RowLengths : DataRow(f, n)

SpecRows == InitRows /\ [][NextRows]_vars

\* C34: the values of the accumulating data set are all inside the buffer
\* that data_set points to: data_set_count is no more than the allocated
\* number of doubles and no append has written outside it, whatever the
\* lengths of the rows
C34_DataSetWithinCapacity ==
    ~inc.data_set.null =>
        /\ inc.data_set_count <= inc.data_set.cap
        /\ ~inc.data_set.ovf

---------------------------------------------------------------------------
(* C35 *)

\* C35: every sweep point has been written inside the allocated sweep
\* buffers: no write to sweep_freq or sweep_data has gone past the end of
\* the allocation, and the points held are within both
C35_SweepWithinCapacity ==
    /\ ~inc.sweep_freq.ovf
    /\ ~inc.sweep_data.ovf
    /\ ~inc.sweep_freq.null => inc.sweep_count <= inc.sweep_freq.cap

---------------------------------------------------------------------------
(* C36 *)

\* the values that the noise branch can derive from an input row: the values
\* of the row and their conversions
DerivedFrom(row) ==
    {row[j] : j \in 1..Len(row)}
        \cup {Pow10Div10(row[j]) : j \in 1..Len(row)}
        \cup {Deg2Rad(row[j]) : j \in 1..Len(row)}

\* C36: no value of an emitted parameter packet is a cell that was never
\* written, and each of the five values of every point of a noise packet is
\* derived from the input row of that point
C36_PacketValuesWritten ==
    \A n \in 1..Len(session) :
        IsParameter(session[n]) =>
            /\ \A i \in 1..Len(session[n].data) : session[n].data[i] # junk
            /\ IsNoise(session[n]) =>
                  \A k \in 1..Len(session[n].src) :
                      \A s \in 1..5 :
                          session[n].data[5 * (k - 1) + s]
                              \in DerivedFrom(session[n].src[k].set)

---------------------------------------------------------------------------
(* C37 *)

\* C37: the parser is in the state PS_NOISE_DATA only with two ports
C37_NoiseOnlyTwoPorts ==
    inc.state = "PS_NOISE_DATA" => inc.num_ports = 2

---------------------------------------------------------------------------
(* C38 *)

IsNumPortsKeyword(line) == HasPrefix(line, Chars("[NUMBER OF PORTS]"))

\* C38: in a version 2 file the state PS_DATA_LINES is reached only with a
\* port count above 0, declared by a [NUMBER OF PORTS] line
C38_DataLinesKnowPorts ==
    (inc.file_version = 2 /\ inc.state = "PS_DATA_LINES") =>
        /\ inc.num_ports > 0
        /\ \E k \in 1..Len(handed) : IsNumPortsKeyword(handed[k])

---------------------------------------------------------------------------
(* C39 *)

\* the values of one data set of N ports in the matrix format mf
ValuesPerSet(N, mf) ==
    IF mf = "MF_FULL" THEN 2 * N * N + 1 ELSE N * N + N + 1

\* C39: in a version 2 file with a declared port count, in the state
\* PS_DATA_LINES, num_vals_per_set is 2*N*N + 1 for the full matrix and
\* N*N + N + 1 for a lower or upper triangle
C39_ValuesPerSetOfFormat ==
    (inc.file_version = 2 /\ inc.state = "PS_DATA_LINES" /\ inc.num_ports > 0)
        => inc.num_vals_per_set = ValuesPerSet(inc.num_ports, inc.matrix_format)

---------------------------------------------------------------------------
(* C40 *)

DataPhases == {"PS_DATA_LINES", "PS_NOISE_DATA"}

\* process_line has taken the parser from b to a with the line: a data phase
\* is followed by a data phase, PS_NOISE_DATA by PS_NOISE_DATA, and a '#'
\* line after the first option line has changed no field of the context;
\* the state of the parser is now that of a
PhaseStep(b, a, line) ==
    /\ b.inc.state \in DataPhases => a.inc.state \in DataPhases
    /\ b.inc.state = "PS_NOISE_DATA" => a.inc.state = "PS_NOISE_DATA"
    /\ (line[1] = "#" /\ b.inc.state \notin {"PS_START_FILE", "PS_OPTION_LINE"})
          => a.inc = b.inc /\ a.ret = "SR_OK"
    /\ inc.state = a.inc.state

\* the step of the last handed line, from the parser b before it
PhaseStepLast(b) ==
    PhaseStep(b, AfterLine(b, handed[Len(handed)]), handed[Len(handed)])

\* the last handed line is a '#' line that came in a data phase with values
\* waiting in the data set
LaterOptionLineLast(b) ==
    /\ handed[Len(handed)][1] = "#"
    /\ b.inc.state \in DataPhases
    /\ b.inc.data_set_count > 0

\* C40: the phases of the parser only move forward: no line takes the parser
\* from PS_DATA_LINES or PS_NOISE_DATA to an earlier state, no line takes it
\* out of PS_NOISE_DATA, a '#' line after the first option line changes
\* nothing, and end() leaves the state where the last line left it
C40_PhasesForward == handed # <<>> => PhaseStepLast(BeforeLast)

\* a '#' line has been handed in a data phase with values waiting in the
\* data set
C40_Witness ==
    /\ handed # <<>>
    /\ LaterOptionLineLast(BeforeLast)
    /\ inc.state = "PS_DATA_LINES"

TypeOK ==
    /\ pos \in 0..Len(stream)
    /\ pc \in {"open", "ended", "rearmed", "refed", "reended", "match", "matched",
              "rows"}
    /\ ret \in {"SR_OK", "SR_ERR"}
    /\ match_ret \in {"NONE", "SR_OK", "SR_ERR"}
    /\ confidence \in Confidences \cup {0, 10}
    /\ inc.state \in {"PS_START_FILE", "PS_OPTION_LINE", "PS_NUM_PORTS",
                      "PS_KEYWORDS", "PS_REFERENCES", "PS_SKIP_INFO",
                      "PS_DATA_LINES", "PS_NOISE_DATA"}

====
